---- MODULE Spec2Model ----
(***************************************************************************)
(* Model of the Houdini cook dispatcher: the task processors of            *)
(* houdini/task_processors.py (execute of each processor, its subprocess   *)
(* stages, result resolution, detail logging) and the activity log store   *)
(* of houdini/log_system.py (detail logs, per-user stack with history).    *)
(*                                                                         *)
(* Conventions                                                             *)
(*  - Python None is the string "None"; a missing dictionary key is the    *)
(*    string "ABSENT"; an empty string is "".                              *)
(*  - The text a subprocess prints, or leaves in a file, is one of a few   *)
(*    JSON texts; JsonLoads gives what json.loads makes of it.             *)
(*  - A job blocks only in subprocess.run, so one action runs the code     *)
(*    from one blocking point to the next (or to the return).              *)
(***************************************************************************)
EXTENDS Integers, Sequences, FiniteSets, TLC

(***************************************************************************)
(* JSON texts and Python values                                            *)
(***************************************************************************)
\* Texts a child may print on stdout (after .strip()).
StdoutTexts == {"", "garbage", "null", "{ok:true}", "{ok:false}", "{}", "[1]"}

\* Contents a child may leave in the --out file; "" is the file as
\* NamedTemporaryFile(delete=False) creates it.
FileTexts == {"", "garbage", "{ok:true}", "{ok:false}"}

\* The --out file when the child has exited: what it holds, or "ABSENT" when
\* the child removed it.
ResultFiles == FileTexts \cup {"ABSENT"}

RetCodes == {"0", "1"}

\* json.loads / json.load: raises on "" and on non-JSON text.
JsonRaises(text) == text \in {"", "garbage"}

JsonValue(text) ==
    CASE text = "null"       -> "None"
      [] text = "{ok:true}"  -> "DictOkTrue"
      [] text = "{ok:false}" -> "DictOkFalse"
      [] text = "{}"         -> "DictEmpty"
      [] text = "[1]"        -> "List"
      [] OTHER               -> "None"

\* try: x = json.loads(text)  except Exception: x = None
JsonLoadsOrNone(text) == IF JsonRaises(text) THEN "None" ELSE JsonValue(text)

\* Python truthiness of a parsed value.
Truthy(v) == v \in {"DictOkTrue", "DictOkFalse", "List"}

IsDict(v) == v \in {"DictOkTrue", "DictOkFalse", "DictEmpty"}

\* Truthiness of v.get("ok") for a dict v.
GetOk(v) == v = "DictOkTrue"

\* The expression  `v and v.get("ok")`:  a falsy v short-circuits, a truthy
\* non-dict has no .get and raises AttributeError.
AndGetOkRaises(v) == Truthy(v) /\ ~IsDict(v)

AndGetOk(v) == Truthy(v) /\ IsDict(v) /\ GetOk(v)

(***************************************************************************)
(* Payloads                                                                *)
(***************************************************************************)
TaskTypes == {"room_generation", "room_regen", "list_themes"}

\* hip: the key may be missing, empty, a file in an existing directory, or
\* a file whose directory does not exist.
Hips == {"ABSENT", "", "/proj/a.hip", "/gone/b.hip"}

CookNodes == {"ABSENT", "", "/obj/geo1/OUT"}

PayloadUuids == {"", "u1"}

\* parms: not a dict (a list), or a dict with at most one key.
ParmsSet ==
    {[isdict |-> FALSE, key |-> "", val |-> ""],
     [isdict |-> TRUE, key |-> "", val |-> ""],
     [isdict |-> TRUE, key |-> "seed", val |-> "3"],
     [isdict |-> TRUE, key |-> "room_file", val |-> "r1.json"],
     [isdict |-> TRUE, key |-> "Room_File", val |-> "r1.json"]}

\* How the engine executable is named: "hython" key, "hfs" key, or neither
\* (and no HFS in the environment).
HythonKinds == {"hython", "hfs", "none"}

\* timeout_sec as int() sees it.
TimeoutKinds == {"int", "bad"}

Payloads ==
    [hip : Hips, cook_node : CookNodes, uuid : PayloadUuids, parms : ParmsSet,
     hython : HythonKinds, timeout_sec : TimeoutKinds]

\* str(k).lower()
Lower(k) == IF k = "Room_File" THEN "room_file" ELSE k

\* normalize_parms: {} for a falsy value, AttributeError for a non-dict,
\* else the dict with lower-cased keys.
NormalizeParmsRaises(parms) == ~parms.isdict

NormalizeParms(parms) == [parms EXCEPT !.key = Lower(parms.key)]

\* os.path.splitext(os.path.basename(room_file))[0]
FileStem(name) == IF name = "r1.json" THEN "r1" ELSE name

\* extract_uuid(payload, parms_lower)
ExtractUuid(p, parms_lower) ==
    IF p.uuid # "" THEN p.uuid
    ELSE IF parms_lower.key = "room_file" /\ parms_lower.val # ""
         THEN FileStem(parms_lower.val)
         ELSE ""

\* Every correlation id a job can end up with.
UuidVals == {"u1", "u2", "r1"}

\* resolve_hython_path raises ValueError when neither is given.
ResolveHythonRaises(p) == p.hython = "none"

\* _hip_dir: the directory of the hip file, when it is a directory.
HipDirExists(hip) == hip = "/proj/a.hip"

\* `not x` for a payload.get(x): missing and empty are both falsy.
Falsy(x) == x \in {"ABSENT", ""}

\* str(e) of the exception classes that can reach an except clause.
ExcStr(cls) ==
    CASE cls = "TimeoutExpired" -> "Command timed out after timeout_sec seconds"
      [] cls = "OSError"        -> "No such file or directory"
      [] cls = "AttributeError" -> "object has no attribute"
      [] cls = "ValueError"     -> "invalid literal or no hython and no HFS"
      [] cls = "KeyError"       -> "missing key"
      [] OTHER                  -> "error"

(***************************************************************************)
(* Results                                                                 *)
(***************************************************************************)
\* post_info: None (present FALSE), or the dictionary of lines 220-245.
NoPost ==
    [present |-> FALSE, ok |-> FALSE, returncode |-> "None", json |-> "None",
     stderr |-> ""]

\* {"ok": False, "error": msg}
ErrorResult(msg) ==
    [shape |-> "error", ok |-> FALSE, error |-> msg, returncode |-> "None",
     worker_json |-> "None", post |-> NoPost]

\* worker_json.copy() with elapsed_ms_dispatch and post added: ok is the
\* worker's own ok.
WorkerResult(wj, post) ==
    [shape |-> "worker", ok |-> GetOk(wj), error |-> "", returncode |-> "None",
     worker_json |-> wj, post |-> post]

\* {"ok": False, elapsed_ms_dispatch, returncode, stdout, stderr, worker_json, post}
FailureResult(rc, wj, post) ==
    [shape |-> "failure", ok |-> FALSE, error |-> "", returncode |-> rc,
     worker_json |-> wj, post |-> post]

NoResult ==
    [shape |-> "none", ok |-> FALSE, error |-> "", returncode |-> "None",
     worker_json |-> "None", post |-> NoPost]

(***************************************************************************)
(* State                                                                   *)
(***************************************************************************)
Jobs == {"j1", "j2"}

\* What the file system does to one write of a log file: nothing, or a
\* failure of os.makedirs, of the write to the temporary file, or of
\* os.replace.
LogIo == {"ok", "mkdir_fails", "write_fails", "rename_fails"}

VARIABLES
    pc,         \* per job: "off", "start", "png2json", "primary", "post", "done"
    proc,       \* per job: the processor handling it (its task type)
    payload,    \* per job: the request payload
    loc,        \* per job: the locals execute keeps across a blocking call
    tmp,        \* per job: its two temporary files (job descriptor, --out file)
    ev,         \* per job: what it did so far, in order
    result,     \* per job: what execute returned
    escaped,    \* per job: an exception left execute
    detailFs,   \* <hip_dir>/export/serve/log/detail/<uuid>.json, by uuid
    logCalls,   \* per job: calls of write_detail_log
    logWrites   \* per job: detail-log files it wrote

execVars ==
    <<pc, proc, payload, loc, tmp, ev, result, escaped, detailFs, logCalls, logWrites>>

VARIABLES
    userFs,     \* the user log files, by file name
    cpc,        \* per caller: "idle", or "loaded" between load and store
    cargs,      \* per caller: the arguments of its call
    cstate,     \* per caller: the state it loaded
    clock,      \* calls made so far
    ever,       \* per file: every entry that was ever in its stored stack
    unseen,     \* per caller: entries others stored in its file since it loaded
    last        \* the call that returned last, until the next one loads

stackVars == <<userFs, cpc, cargs, cstate, clock, ever, unseen, last>>

VARIABLES
    wdest,      \* one log file: the version and the bytes it holds, or no file
    wtmp,       \* per writer: the temporary file of its call of _atomic_write_json
    wpc,        \* per writer: "idle", "open" (json.dump running), "closed"
    wcount,     \* calls of _atomic_write_json begun
    rdSeen      \* what readers of the log file found in it

writeVars == <<wdest, wtmp, wpc, wcount, rdSeen>>

VARIABLES
    fcall,      \* the last call of a pure function: its name and arguments
    fret        \* what that call returned or raised

fnVars == <<fcall, fret>>

VARIABLES
    rpc,        \* position of each run_subprocess call
    rcall,      \* its call site, its timeout and the ticks left to its deadline
    rchild,     \* state of the child process it started
    rnow        \* the clock, modulo MaxTicks + 1

runVars == <<rpc, rcall, rchild, rnow>>

auxVars == <<fnVars, runVars>>

coreVars == <<execVars, stackVars, writeVars>>

\* file is the --out file as the child left it; rm_job_failed and
\* rm_result_failed tell that os.remove raised (and was ignored); engine is
\* what os.path.isfile(hython_path) found, "unknown" when it was not asked.
NoLoc ==
    [returncode |-> "None", stdout |-> "", worker_json |-> "None", uuid_val |-> "",
     file |-> "ABSENT", rm_job_failed |-> FALSE, rm_result_failed |-> FALSE,
     engine |-> "unknown", log_io |-> "none", png2json_stdout |-> "NOT_RUN",
     post_cmd |-> {}, post_stdout |-> "NOT_RUN"]

NoTmp == [job |-> "ABSENT", result |-> "ABSENT"]

NoDetail ==
    [exists |-> FALSE, task |-> "", uuid |-> "", has_ok |-> FALSE, ok |-> FALSE,
     returncode |-> "None", worker_json |-> "None", post |-> NoPost]

DefaultPayload ==
    [hip |-> "ABSENT", cook_node |-> "ABSENT", uuid |-> "",
     parms |-> [isdict |-> TRUE, key |-> "", val |-> ""],
     hython |-> "none", timeout_sec |-> "int"]

\* execute returns res.
Return(j, res) ==
    /\ pc' = [pc EXCEPT ![j] = "done"]
    /\ result' = [result EXCEPT ![j] = res]
    /\ UNCHANGED escaped

\* The exception leaves execute: no handler of the code does this.
ExceptPropagates(j, cls) ==
    /\ pc' = [pc EXCEPT ![j] = "done"]
    /\ escaped' = [escaped EXCEPT ![j] = TRUE]
    /\ UNCHANGED result

\* except Exception as e: return {"ok": False, "error": str(e)}
\* (the last clause of each execute).
ExceptReturn(j, cls) == Return(j, ErrorResult(ExcStr(cls)))

Emit(j, events) == ev' = [ev EXCEPT ![j] = @ \o events]

(***************************************************************************)
(* log_system.write_detail_log                                             *)
(***************************************************************************)
\* Whether write_detail_log(hip_path, uuid_val, data) leaves a file: both
\* arguments non-empty, the hip directory exists, the detail directory can
\* be made and the atomic write goes through (its failure is swallowed).
DetailLogWritten(hip, uuid_val, io) ==
    /\ ~Falsy(hip)
    /\ uuid_val # ""
    /\ HipDirExists(hip)
    /\ io = "ok"

\* A variant in which a failure of the file system leaves write_detail_log
\* as an exception.
LogWriteRaisesOnFailure(io) == io # "ok"

\* Whether write_detail_log raises: _hip_dir, _ensure_dir and
\* _atomic_write_json each catch Exception, so no failure of the file
\* system leaves it.
LogWriteRaises(io) == FALSE

\* A variant that keeps every job's record in one file.
DetailLogKeyShared(uuid_val) == "u1"

\* Line 102: the file of a detail log is named by the correlation id.
DetailLogKey(uuid_val) == uuid_val

WriteDetailLog(j, hip, uuid_val, data, io) ==
    /\ logCalls' = [logCalls EXCEPT ![j] = @ + 1]
    /\ IF DetailLogWritten(hip, uuid_val, io)
       THEN /\ detailFs' = [detailFs EXCEPT ![DetailLogKey(uuid_val)] = data]
            /\ logWrites' = [logWrites EXCEPT ![j] = @ + 1]
       ELSE UNCHANGED <<detailFs, logWrites>>

(***************************************************************************)
(* Result resolution (task_processors.py 177-194, 398-415)                 *)
(***************************************************************************)
\* First channel: stdout, when non-empty and parseable.
FromStdout(stdout) == IF stdout # "" THEN JsonLoadsOrNone(stdout) ELSE "None"

\* The fallback file is consulted when the first channel gave None and the
\* file exists.
UsesFallback(stdout, file) == FromStdout(stdout) = "None" /\ file # "ABSENT"

ResolvePayload(stdout, file) ==
    IF UsesFallback(stdout, file) THEN JsonLoadsOrNone(file) ELSE FromStdout(stdout)

\* A variant that never removes the fallback file.
FallbackAfterKept(stdout, file, rmOk) == file

\* The fallback file afterwards: removed (best effort) when it was consulted.
FallbackAfter(stdout, file, rmOk) ==
    IF UsesFallback(stdout, file) /\ rmOk THEN "ABSENT" ELSE file

\* A variant without the finally clause.
JobFileAfterKept(jobFile, rmOk) == jobFile

\* os.remove(job_path) in the finally clause, failure swallowed.
JobFileAfter(jobFile, rmOk) == IF rmOk THEN "ABSENT" ELSE jobFile

(***************************************************************************)
(* RoomGenerationProcessor.execute                                         *)
(***************************************************************************)
\* Lines 121-152: everything before the temporary files are made.  exc is
\* the exception that reaches the clause of line 285, if any; otherwise
\* stop tells whether one of the early returns is taken.
GenEarly(p, hythonIsFile, workerIsFile) ==
    IF p.timeout_sec = "bad"
    THEN [exc |-> "ValueError", stop |-> TRUE, result |-> NoResult]
    ELSE IF Falsy(p.hip) \/ Falsy(p.cook_node)
    THEN [exc |-> "", stop |-> TRUE,
          result |-> ErrorResult("missing hip or cook_node")]
    ELSE IF ResolveHythonRaises(p)
    THEN [exc |-> "", stop |-> TRUE, result |-> ErrorResult(ExcStr("ValueError"))]
    ELSE IF ~hythonIsFile
    THEN [exc |-> "", stop |-> TRUE, result |-> ErrorResult("hython not found")]
    ELSE IF ~workerIsFile
    THEN [exc |-> "", stop |-> TRUE,
          result |-> ErrorResult("worker script not found")]
    ELSE IF NormalizeParmsRaises(p.parms)
    THEN [exc |-> "AttributeError", stop |-> TRUE, result |-> NoResult]
    ELSE [exc |-> "", stop |-> FALSE, result |-> NoResult]

\* Whether execute gets as far as os.path.isfile(hython_path) at line 138.
GenAsksEngine(p) ==
    /\ p.timeout_sec # "bad"
    /\ ~Falsy(p.hip)
    /\ ~Falsy(p.cook_node)
    /\ ~ResolveHythonRaises(p)

\* Lines 119-166: parse, validate, resolve, make the temporary files and
\* call run_subprocess for the primary stage.
GenPrepare(j) ==
    /\ pc[j] = "start"
    /\ proc[j] = "room_generation"
    /\ \E hythonIsFile \in BOOLEAN, workerIsFile \in BOOLEAN :
        LET early == GenEarly(payload[j], hythonIsFile, workerIsFile) IN
        /\ loc' = [loc EXCEPT ![j].engine =
                    IF GenAsksEngine(payload[j])
                    THEN (IF hythonIsFile THEN "file" ELSE "missing")
                    ELSE "unknown"]
        /\ IF early.exc # ""
           THEN /\ ExceptReturn(j, early.exc)
                /\ Emit(j, <<"return">>)
                /\ UNCHANGED tmp
           ELSE IF early.stop
           THEN /\ Return(j, early.result)
                /\ Emit(j, <<"return">>)
                /\ UNCHANGED tmp
           ELSE /\ pc' = [pc EXCEPT ![j] = "primary"]
                /\ tmp' = [tmp EXCEPT ![j] = [job |-> "PRESENT", result |-> ""]]
                /\ Emit(j, <<"run:primary">>)
                /\ UNCHANGED <<result, escaped>>
    /\ UNCHANGED <<proc, payload, detailFs, logCalls, logWrites, stackVars, writeVars, auxVars>>

\* A variant that does not read the exit code.
GenResponseIgnoresRc(rc, wj, post) ==
    IF AndGetOk(wj)
    THEN WorkerResult(wj, post)
    ELSE FailureResult(rc, wj, post)

\* A variant in which a failed post-process stage fails the job.
GenResponsePostFatal(rc, wj, post) ==
    IF rc = "0" /\ AndGetOk(wj) /\ (post.present => post.ok)
    THEN WorkerResult(wj, post)
    ELSE FailureResult(rc, wj, post)

\* The response of lines 268-283.
GenResponse(rc, wj, post) ==
    IF rc = "0" /\ AndGetOk(wj)
    THEN WorkerResult(wj, post)
    ELSE FailureResult(rc, wj, post)

\* A variant that makes the record before the post-process stage has run.
GenLogRecordEarly(rc, wj, uuid_val, post) ==
    [exists |-> TRUE, task |-> "room_generation", uuid |-> uuid_val,
     has_ok |-> TRUE, ok |-> (AndGetOk(wj) /\ rc = "0"),
     returncode |-> rc, worker_json |-> wj, post |-> NoPost]

\* The record of lines 248-265 (the fields the claims read).
GenLogRecord(rc, wj, uuid_val, post) ==
    [exists |-> TRUE, task |-> "room_generation", uuid |-> uuid_val,
     has_ok |-> TRUE, ok |-> (AndGetOk(wj) /\ rc = "0"),
     returncode |-> rc, worker_json |-> wj, post |-> post]

\* Lines 247-286: build the record, write the detail log, return the
\* response.  A truthy non-dict worker_json raises AttributeError at line 250
\* and the clause of line 285 returns the error.
GenFinish(j, rc, wj, uuid_val, post, io, events) ==
    IF AndGetOkRaises(wj)
    THEN /\ ExceptReturn(j, "AttributeError")
         /\ Emit(j, events \o <<"return">>)
         /\ UNCHANGED <<detailFs, logCalls, logWrites>>
    ELSE /\ WriteDetailLog(j, payload[j].hip, uuid_val,
                           GenLogRecord(rc, wj, uuid_val, post), io)
         /\ IF LogWriteRaises(io)
            THEN ExceptReturn(j, "OSError")
            ELSE Return(j, GenResponse(rc, wj, post))
         /\ Emit(j, events \o <<"detail_log", "return">>)

\* A variant that asks for no correlation id.
GenRunsPostWithoutUuid(rc, wj, uuid_val) == rc = "0" /\ AndGetOk(wj)

\* Line 200: whether the post-process stage is entered.
GenRunsPost(rc, wj, uuid_val) == rc = "0" /\ AndGetOk(wj) /\ uuid_val # ""

\* Lines 206-211: the options on the command line of json2jpg.py.
PostCmdOptions == {"--hip", "--uuid", "--wait-sec"}

\* The primary child exits: lines 167-212, and lines 247-286 when no
\* post-process stage is run.
GenPrimaryExit(j) ==
    /\ pc[j] = "primary"
    /\ proc[j] = "room_generation"
    /\ \E rc \in RetCodes, out \in StdoutTexts, file \in ResultFiles,
          rmJob \in BOOLEAN, rmRes \in BOOLEAN, readerIsFile \in BOOLEAN,
          io \in LogIo :
        LET p == payload[j]
            wj == ResolvePayload(out, file)
            uuid_val == ExtractUuid(p, NormalizeParms(p.parms))
        IN
        /\ tmp' = [tmp EXCEPT ![j] = [job |-> JobFileAfter(@.job, rmJob),
                                      result |-> FallbackAfter(out, file, rmRes)]]
        /\ loc' = [loc EXCEPT ![j] =
                    [returncode |-> rc, stdout |-> out, worker_json |-> wj,
                     uuid_val |-> uuid_val, file |-> file,
                     rm_job_failed |-> ~rmJob,
                     rm_result_failed |-> (UsesFallback(out, file) /\ ~rmRes),
                     engine |-> loc[j].engine,
                     png2json_stdout |-> loc[j].png2json_stdout,
                     post_cmd |-> IF GenRunsPost(rc, wj, uuid_val) /\ readerIsFile
                                  THEN PostCmdOptions ELSE {},
                     post_stdout |-> "NOT_RUN",
                     log_io |-> IF AndGetOkRaises(wj)
                                   \/ (GenRunsPost(rc, wj, uuid_val) /\ readerIsFile)
                                THEN "none" ELSE io]]
        /\ IF rc = "0" /\ AndGetOkRaises(wj)
           THEN /\ ExceptReturn(j, "AttributeError")
                /\ Emit(j, <<"exit:primary", "return">>)
                /\ UNCHANGED <<detailFs, logCalls, logWrites>>
           ELSE IF GenRunsPost(rc, wj, uuid_val) /\ readerIsFile
           THEN /\ pc' = [pc EXCEPT ![j] = "post"]
                /\ Emit(j, <<"exit:primary", "run:post">>)
                /\ UNCHANGED <<result, escaped, detailFs, logCalls, logWrites>>
           ELSE GenFinish(j, rc, wj, uuid_val, NoPost, io, <<"exit:primary">>)
    /\ UNCHANGED <<proc, payload, stackVars, writeVars, auxVars>>

\* run_subprocess raises for the primary stage (TimeoutExpired after the
\* child was killed, or OSError when it could not be started): the finally
\* clause removes the job file and the except clause of line 285 (or 449)
\* returns the error.  The same code serves room_regen's hython stage.
PrimaryRaises(j, cls, event) ==
    /\ pc[j] = "primary"
    /\ \E rmJob \in BOOLEAN :
        /\ tmp' = [tmp EXCEPT ![j].job = JobFileAfter(@, rmJob)]
        /\ loc' = [loc EXCEPT ![j].rm_job_failed = ~rmJob]
    /\ ExceptReturn(j, cls)
    /\ Emit(j, <<event, "return">>)
    /\ UNCHANGED <<proc, payload, detailFs, logCalls, logWrites, stackVars, writeVars, auxVars>>

\* A variant that swallows the timeout and goes on to the post-process stage.
PrimaryTimeoutGoesOn(j) ==
    /\ pc[j] = "primary"
    /\ proc[j] = "room_generation"
    /\ pc' = [pc EXCEPT ![j] = "post"]
    /\ tmp' = [tmp EXCEPT ![j].job = "ABSENT"]
    /\ Emit(j, <<"timeout:primary", "run:post">>)
    /\ UNCHANGED <<proc, payload, loc, result, escaped, detailFs, logCalls,
                   logWrites, stackVars, writeVars, auxVars>>

PrimaryTimeout(j) == PrimaryRaises(j, "TimeoutExpired", "timeout:primary")

PrimarySpawnError(j) == PrimaryRaises(j, "OSError", "spawn_error:primary")

\* Lines 213-227: post_info of a post-process child that exited.  A truthy
\* non-dict post_json raises inside the try and gives the post_info of
\* lines 238-245.
PostInfoExit(rc, out) ==
    LET post_json == FromStdout(out) IN
    IF AndGetOkRaises(post_json)
    THEN [present |-> TRUE, ok |-> FALSE, returncode |-> "None",
          json |-> "None", stderr |-> ExcStr("AttributeError")]
    ELSE [present |-> TRUE, ok |-> (AndGetOk(post_json) /\ rc = "0"),
          returncode |-> rc, json |-> post_json, stderr |-> ""]

\* Lines 228-245: post_info when run_subprocess raised.
PostInfoRaised(cls) ==
    [present |-> TRUE, ok |-> FALSE, returncode |-> "None", json |-> "None",
     stderr |-> IF cls = "TimeoutExpired" THEN "json2jpg timeout" ELSE ExcStr(cls)]

\* The post-process child exits: lines 213-227 and 247-286.
GenPostExit(j) ==
    /\ pc[j] = "post"
    /\ \E rc \in RetCodes, out \in StdoutTexts, io \in LogIo :
        /\ GenFinish(j, loc[j].returncode, loc[j].worker_json, loc[j].uuid_val,
                     PostInfoExit(rc, out), io, <<"exit:post">>)
        /\ loc' = [loc EXCEPT ![j].log_io = io, ![j].post_stdout = out]
    /\ UNCHANGED <<proc, payload, tmp, stackVars, writeVars, auxVars>>

\* The post-process stage raises: lines 228-245 and 247-286.
GenPostRaises(j, cls, event) ==
    /\ pc[j] = "post"
    /\ \E io \in LogIo :
        /\ GenFinish(j, loc[j].returncode, loc[j].worker_json, loc[j].uuid_val,
                     PostInfoRaised(cls), io, <<event>>)
        /\ loc' = [loc EXCEPT ![j].log_io = io]
    /\ UNCHANGED <<proc, payload, tmp, stackVars, writeVars, auxVars>>

GenPostTimeout(j) == GenPostRaises(j, "TimeoutExpired", "timeout:post")

GenPostSpawnError(j) == GenPostRaises(j, "OSError", "spawn_error:post")

(***************************************************************************)
(* RoomRegenProcessor.execute                                              *)
(***************************************************************************)
\* Lines 306-315: the exception the first statements raise, "" when none.
RegenEarlyExc(p) ==
    IF p.hip = "ABSENT" \/ p.cook_node = "ABSENT" THEN "KeyError"
    ELSE IF NormalizeParmsRaises(p.parms) THEN "AttributeError"
    ELSE IF ResolveHythonRaises(p) THEN "ValueError"
    ELSE ""

\* Lines 305-335: up to the run of png2json.py.
RegenPrepare(j) ==
    /\ pc[j] = "start"
    /\ proc[j] = "room_regen"
    /\ \E png2jsonIsFile \in BOOLEAN :
        LET exc == RegenEarlyExc(payload[j]) IN
        IF exc # ""
        THEN /\ ExceptReturn(j, exc)
             /\ Emit(j, <<"return">>)
        ELSE IF ~png2jsonIsFile
        THEN /\ Return(j, ErrorResult("png2json script not found"))
             /\ Emit(j, <<"missing:png2json", "return">>)
        ELSE /\ pc' = [pc EXCEPT ![j] = "png2json"]
             /\ Emit(j, <<"run:png2json">>)
             /\ UNCHANGED <<result, escaped>>
    /\ UNCHANGED <<proc, payload, loc, tmp, detailFs, logCalls, logWrites, stackVars, writeVars, auxVars>>

\* A variant that goes on whenever png2json.py printed an object.
Png2jsonVerdictAnyObject(out) ==
    IF out = "" THEN "png2json no output"
    ELSE IF JsonRaises(out) THEN "png2json output unparseable"
    ELSE IF ~IsDict(JsonValue(out)) THEN "png2json output unparseable"
    ELSE ""

\* Lines 336-356: what the stdout of png2json.py leads to: "" to go on to
\* the hython stage, else the error returned.  The exit code is not read.
Png2jsonVerdict(out) ==
    IF out = "" THEN "png2json no output"
    ELSE IF JsonRaises(out) THEN "png2json output unparseable"
    ELSE IF ~IsDict(JsonValue(out)) THEN "png2json output unparseable"
    ELSE IF ~GetOk(JsonValue(out)) THEN "png2json failed"
    ELSE ""

\* Line 331: the options execute puts on the command line of png2json.py.
Png2jsonCmdOptions == {"--hip", "--uuid"}

\* png2json.py run with the given options: what it prints on stdout.
\* Without Pillow it prints a sentence and exits (lines 46-50); argparse
\* rejects a command line without --input, or with an option it does not
\* know, with the usage on stderr (lines 133-139); otherwise main prints
\* sentences (lines 144-186), never JSON.
Png2jsonMain(options, pillow, inputExists) ==
    IF ~pillow THEN [returncode |-> "1", stdout |-> "garbage"]
    ELSE IF "--input" \notin options
            \/ options \ {"--input", "--output", "--format"} # {}
    THEN [returncode |-> "2", stdout |-> ""]
    ELSE IF ~inputExists THEN [returncode |-> "1", stdout |-> "garbage"]
    ELSE [returncode |-> "0", stdout |-> "garbage"]

\* What the png2json.py of this repository can print when execute runs it.
Png2jsonRepoStdouts ==
    {Png2jsonMain(Png2jsonCmdOptions, pillow, inputExists).stdout :
        pillow \in BOOLEAN, inputExists \in BOOLEAN}

\* png2json.py exits having printed one of outs: lines 336-387.
RegenPng2jsonExitWith(j, outs) ==
    /\ pc[j] = "png2json"
    /\ \E rc \in RetCodes, out \in outs :
        LET verdict == Png2jsonVerdict(out) IN
        /\ loc' = [loc EXCEPT ![j].png2json_stdout = out]
        /\ IF verdict # ""
           THEN /\ Return(j, ErrorResult(verdict))
                /\ Emit(j, <<"exit:png2json", "return">>)
                /\ UNCHANGED tmp
           ELSE /\ pc' = [pc EXCEPT ![j] = "primary"]
                /\ tmp' = [tmp EXCEPT ![j] = [job |-> "PRESENT", result |-> ""]]
                /\ Emit(j, <<"exit:png2json", "run:primary">>)
                /\ UNCHANGED <<result, escaped>>
    /\ UNCHANGED <<proc, payload, detailFs, logCalls, logWrites, stackVars, writeVars, auxVars>>

\* The png2json child is any program.
RegenPng2jsonExit(j) == RegenPng2jsonExitWith(j, StdoutTexts)

\* The png2json child is the png2json.py of this repository.
RegenPng2jsonRepoExit(j) == RegenPng2jsonExitWith(j, Png2jsonRepoStdouts)

\* run_subprocess raises for png2json.py: lines 357-361.
RegenPng2jsonRaises(j, event) ==
    /\ pc[j] = "png2json"
    /\ Return(j, ErrorResult("png2json run failed"))
    /\ Emit(j, <<event, "return">>)
    /\ UNCHANGED <<proc, payload, loc, tmp, detailFs, logCalls, logWrites, stackVars, writeVars, auxVars>>

RegenPng2jsonTimeout(j) == RegenPng2jsonRaises(j, "timeout:png2json")

RegenPng2jsonSpawnError(j) == RegenPng2jsonRaises(j, "spawn_error:png2json")

\* Line 418.
RegenPost ==
    [present |-> TRUE, ok |-> TRUE, returncode |-> "None", json |-> "None",
     stderr |-> ""]

\* Lines 318-323 and 421-428: the record has no ok field.
RegenLogRecord(rc, wj, uuid_val) ==
    [exists |-> TRUE, task |-> "room_regen", uuid |-> uuid_val,
     has_ok |-> FALSE, ok |-> FALSE,
     returncode |-> "None", worker_json |-> wj, post |-> RegenPost]

\* Lines 432-447: the exit code is not read.
RegenResponse(rc, wj) ==
    IF AndGetOk(wj)
    THEN WorkerResult(wj, RegenPost)
    ELSE FailureResult(rc, wj, RegenPost)

\* The hython child exits: lines 388-450.  The detail log is written
\* before line 433 evaluates worker_json.get.  A timeout_sec that is no
\* number makes subprocess.run raise instead (PrimarySpawnError).
RegenPrimaryExit(j) ==
    /\ pc[j] = "primary"
    /\ proc[j] = "room_regen"
    /\ payload[j].timeout_sec = "int"
    /\ \E rc \in RetCodes, out \in StdoutTexts, file \in ResultFiles,
          rmJob \in BOOLEAN, rmRes \in BOOLEAN, io \in LogIo :
        LET p == payload[j]
            wj == ResolvePayload(out, file)
            uuid_val == ExtractUuid(p, NormalizeParms(p.parms))
        IN
        /\ tmp' = [tmp EXCEPT ![j] = [job |-> JobFileAfter(@.job, rmJob),
                                      result |-> FallbackAfter(out, file, rmRes)]]
        /\ loc' = [loc EXCEPT ![j] =
                    [returncode |-> rc, stdout |-> out, worker_json |-> wj,
                     uuid_val |-> uuid_val, file |-> file,
                     rm_job_failed |-> ~rmJob,
                     rm_result_failed |-> (UsesFallback(out, file) /\ ~rmRes),
                     engine |-> loc[j].engine, log_io |-> io,
                     png2json_stdout |-> loc[j].png2json_stdout,
                     post_cmd |-> {}, post_stdout |-> "NOT_RUN"]]
        /\ WriteDetailLog(j, p.hip, uuid_val, RegenLogRecord(rc, wj, uuid_val), io)
        /\ IF LogWriteRaises(io)
           THEN ExceptReturn(j, "OSError")
           ELSE IF AndGetOkRaises(wj)
           THEN ExceptReturn(j, "AttributeError")
           ELSE Return(j, RegenResponse(rc, wj))
        /\ Emit(j, <<"exit:primary", "detail_log", "return">>)
    /\ UNCHANGED <<proc, payload, stackVars, writeVars, auxVars>>

(***************************************************************************)
(* ListThemesProcessor.execute                                             *)
(***************************************************************************)
CfgStates == {"missing", "invalid", "valid"}

ThemesResult ==
    [shape |-> "themes", ok |-> TRUE, error |-> "", returncode |-> "None",
     worker_json |-> "None", post |-> NoPost]

\* Lines 470-544.
ThemesExecute(j) ==
    /\ pc[j] = "start"
    /\ proc[j] = "list_themes"
    /\ \E cfg \in CfgStates :
        /\ (~HipDirExists(payload[j].hip) => cfg = "missing")
        /\ IF Falsy(payload[j].hip)
           THEN Return(j, ErrorResult("missing hip"))
           ELSE IF cfg = "missing"
           THEN Return(j, ErrorResult("theme config not found"))
           ELSE IF cfg = "invalid"
           THEN ExceptReturn(j, "ValueError")
           ELSE Return(j, ThemesResult)
    /\ Emit(j, <<"return">>)
    /\ UNCHANGED <<proc, payload, loc, tmp, detailFs, logCalls, logWrites, stackVars, writeVars, auxVars>>

(***************************************************************************)
(* log_system.LogSystem: the per-user activity stack                       *)
(***************************************************************************)
\* Calls of append_or_replace_user_stack that get past the argument check
\* in one behaviour.
MaxCalls == 4

\* The longest file name _safe_filename returns.
MaxFileNameLen == 200

\* A user id is a sequence of characters.
UserIds == {<<"a">>, <<"b", "/">>}

ProcNames == {"room_generation", "room_regen", "list_themes"}

Statuses == {"completed"}

\* The characters _safe_filename replaces: the set of line 58, control
\* characters (ord < 32), and ':' and '+' again at line 66.
UnsafeChars == {"<", ">", ":", "QUOTE", "/", "BACKSLASH", "|", "?", "*"}

ControlChars == {"NUL", "TAB", "LF"}

SafeChar(ch) ==
    IF ch \in UnsafeChars \/ ch \in ControlChars \/ ch \in {":", "+"} THEN "_" ELSE ch

Min(a, b) == IF a < b THEN a ELSE b

\* _safe_filename(name)
SafeFilename(name) ==
    [i \in 1..Min(Len(name), MaxFileNameLen) |-> SafeChar(name[i])]

\* _user_log_path: <hip_dir>/export/serve/log/users/<safe_id>.json, named
\* here by <safe_id>.
UserLogKey(user_id) == SafeFilename(user_id)

FileKeys == {UserLogKey(u) : u \in UserIds \cup {<<"b", "_">>}}

Range(seq) == {seq[i] : i \in 1..Len(seq)}

\* A stack entry (lines 158-163).  uuid and request_time are the number of
\* the call that made it; 0 stands for an empty string.
NewEntry(a) ==
    [process_name |-> a.process_name, uuid |-> a.uuid,
     request_time |-> a.request_time, status |-> a.status]

\* dict(t) with status and replaced_at set (lines 179-181, 187-189).
Replaced(e, now) ==
    [process_name |-> e.process_name, uuid |-> e.uuid,
     request_time |-> e.request_time, status |-> "replaced", replaced_at |-> now]

\* The file is absent.
NoUserFile ==
    [exists |-> FALSE, valid |-> TRUE, user_id |-> <<>>, stack |-> <<>>,
     history |-> <<>>, updated_at |-> 0]

\* Where a loaded state came from: the file, no file, or a file that could
\* not be read or parsed.
LoadedFrom(file) ==
    IF ~file.exists THEN "absent" ELSE IF file.valid THEN "file" ELSE "unreadable"

\* A variant that takes what is left of a damaged file.
LoadUserStateTrustsFile(file, user_id, init_time) ==
    IF file.exists
    THEN [user_id |-> file.user_id, stack |-> file.stack,
          history |-> file.history, updated_at |-> file.updated_at,
          source |-> LoadedFrom(file)]
    ELSE [user_id |-> user_id, stack |-> <<>>, history |-> <<>>,
          updated_at |-> init_time, source |-> LoadedFrom(file)]

\* _load_user_state: the defaults, overwritten by what a readable file holds;
\* any exception of open or json.load is swallowed (lines 122-129).  source
\* is kept for the claims, it is no key of the state.
LoadUserState(file, user_id, init_time) ==
    IF file.exists /\ file.valid
    THEN [user_id |-> file.user_id, stack |-> file.stack,
          history |-> file.history, updated_at |-> file.updated_at,
          source |-> LoadedFrom(file)]
    ELSE [user_id |-> user_id, stack |-> <<>>, history |-> <<>>,
          updated_at |-> init_time, source |-> LoadedFrom(file)]

\* Lines 165-169: the first index whose process_name matches, 0 for None.
FindIndex(stack, process_name) ==
    IF \E i \in 1..Len(stack) : stack[i].process_name = process_name
    THEN CHOOSE i \in 1..Len(stack) :
            /\ stack[i].process_name = process_name
            /\ \A k \in 1..(i - 1) : stack[k].process_name # process_name
    ELSE 0

\* A variant that puts a new entry first.
UpdateStatePrepends(state, entry, now) ==
    LET idx == FindIndex(state.stack, entry.process_name) IN
    IF idx = 0
    THEN [state EXCEPT !.stack = <<entry>> \o @, !.updated_at = now]
    ELSE LET tail == SubSeq(state.stack, idx + 1, Len(state.stack))
             moved == [k \in 1..Len(tail) |-> Replaced(tail[k], now)]
         IN [state EXCEPT
               !.stack = Append(SubSeq(state.stack, 1, idx - 1), entry),
               !.history = Append(@ \o moved, Replaced(state.stack[idx], now)),
               !.updated_at = now]

\* A variant that never finds the name.
UpdateStateAlwaysAppend(state, entry, now) ==
    [state EXCEPT !.stack = Append(@, entry), !.updated_at = now]

\* A variant that forgets the entry it overwrites.
UpdateStateDropsOld(state, entry, now) ==
    LET idx == FindIndex(state.stack, entry.process_name) IN
    IF idx = 0
    THEN [state EXCEPT !.stack = Append(@, entry), !.updated_at = now]
    ELSE LET tail == SubSeq(state.stack, idx + 1, Len(state.stack)) IN
         [state EXCEPT
            !.stack = Append(SubSeq(state.stack, 1, idx - 1), entry),
            !.history = @ \o [k \in 1..Len(tail) |-> Replaced(tail[k], now)],
            !.updated_at = now]

\* A variant that keeps the entries after the matched one.
UpdateStateKeepsTail(state, entry, now) ==
    LET idx == FindIndex(state.stack, entry.process_name) IN
    IF idx = 0
    THEN [state EXCEPT !.stack = Append(@, entry), !.updated_at = now]
    ELSE [state EXCEPT
            !.stack = [@ EXCEPT ![idx] = entry],
            !.history = Append(@, Replaced(state.stack[idx], now)),
            !.updated_at = now]

\* A variant that cuts the stack one entry before the matched one.
UpdateStateCutsOneMore(state, entry, now) ==
    LET idx == FindIndex(state.stack, entry.process_name) IN
    IF idx = 0
    THEN [state EXCEPT !.stack = Append(@, entry), !.updated_at = now]
    ELSE LET tail == SubSeq(state.stack, idx + 1, Len(state.stack))
             moved == [k \in 1..Len(tail) |-> Replaced(tail[k], now)]
         IN [state EXCEPT
               !.stack = Append(SubSeq(state.stack, 1, idx - 2), entry),
               !.history = Append(@ \o moved, Replaced(state.stack[idx], now)),
               !.updated_at = now]

\* A variant that puts what it moves to history first.
UpdateStateNewestFirst(state, entry, now) ==
    LET idx == FindIndex(state.stack, entry.process_name) IN
    IF idx = 0
    THEN [state EXCEPT !.stack = Append(@, entry), !.updated_at = now]
    ELSE LET tail == SubSeq(state.stack, idx + 1, Len(state.stack))
             moved == [k \in 1..Len(tail) |-> Replaced(tail[k], now)]
         IN [state EXCEPT
               !.stack = Append(SubSeq(state.stack, 1, idx - 1), entry),
               !.history = Append(moved, Replaced(state.stack[idx], now)) \o @,
               !.updated_at = now]

\* Lines 165-195: append, or move the tail and the old entry to history,
\* truncate and overwrite.
UpdateState(state, entry, now) ==
    LET idx == FindIndex(state.stack, entry.process_name) IN
    IF idx = 0
    THEN [state EXCEPT !.stack = Append(@, entry), !.updated_at = now]
    ELSE LET tail == SubSeq(state.stack, idx + 1, Len(state.stack))
             moved == [k \in 1..Len(tail) |-> Replaced(tail[k], now)]
             old == state.stack[idx]
         IN [state EXCEPT
               !.stack = Append(SubSeq(state.stack, 1, idx - 1), entry),
               !.history = Append(@ \o moved, Replaced(old, now)),
               !.updated_at = now]

\* Line 148 and lines 150-152: the call returns None before it loads
\* anything when an argument is empty or the users directory of the hip file
\* cannot be had.
CallRejected(a) ==
    \/ Falsy(a.hip)
    \/ a.user_id = <<>>
    \/ a.process_name = ""
    \/ a.uuid = 0
    \/ a.request_time = 0
    \/ ~HipDirExists(a.hip)

Callers == {"c1", "c2"}

NoState ==
    [user_id |-> <<>>, stack |-> <<>>, history |-> <<>>, updated_at |-> 0,
     source |-> "none"]

NoArgs ==
    [hip |-> "", user_id |-> <<>>, process_name |-> "", uuid |-> 0,
     request_time |-> 0, status |-> "completed"]

NoLast ==
    [kind |-> "none", args |-> NoArgs, before |-> NoState, after |-> NoState,
     stored |-> FALSE, overwrote |-> {}]

\* The arguments of call number n; an empty uuid_val is 0.
CallArgs(n) ==
    [hip : {"/proj/a.hip", "/gone/b.hip"}, user_id : UserIds,
     process_name : ProcNames, uuid : {0, n}, request_time : {n},
     status : Statuses]

\* The arguments of call number n when every call is for the same user and
\* passes the argument check.
SameUserArgs(n) ==
    [hip : {"/proj/a.hip"}, user_id : {<<"a">>}, process_name : ProcNames,
     uuid : {n}, request_time : {n}, status : Statuses]

\* The state as the file holds it.
AsFile(state) ==
    [exists |-> TRUE, valid |-> TRUE, user_id |-> state.user_id,
     stack |-> state.stack, history |-> state.history,
     updated_at |-> state.updated_at]

\* Lines 148-156: check the arguments, derive the path, load the state.
BeginCall(c, argSet) ==
    /\ cpc[c] = "idle"
    /\ clock < MaxCalls
    /\ \E a \in argSet :
        IF CallRejected(a)
        THEN /\ last' = [kind |-> "rejected", args |-> a,
                         before |-> LoadUserState(userFs[UserLogKey(a.user_id)],
                                                  a.user_id, a.request_time),
                         after |-> LoadUserState(userFs[UserLogKey(a.user_id)],
                                                 a.user_id, a.request_time),
                         stored |-> FALSE, overwrote |-> {}]
             /\ UNCHANGED <<cpc, cargs, cstate, unseen, clock>>
        ELSE /\ clock' = clock + 1
             /\ cpc' = [cpc EXCEPT ![c] = "loaded"]
             /\ cargs' = [cargs EXCEPT ![c] = a]
             /\ cstate' = [cstate EXCEPT ![c] =
                    LoadUserState(userFs[UserLogKey(a.user_id)], a.user_id,
                                  a.request_time)]
             /\ unseen' = [unseen EXCEPT ![c] = {}]
             /\ last' = NoLast
    /\ UNCHANGED <<userFs, ever, execVars, writeVars, auxVars>>

\* A variant that reads the file again when it stores.
PendingStateFresh(c) ==
    UpdateState(LoadUserState(userFs[UserLogKey(cargs[c].user_id)],
                              cargs[c].user_id, cargs[c].request_time),
                NewEntry(cargs[c]), cargs[c].request_time)

\* Lines 158-195: the state the call hands to _atomic_write_json, made from
\* what it loaded.
PendingState(c) ==
    UpdateState(cstate[c], NewEntry(cargs[c]), cargs[c].request_time)

\* Line 197: _atomic_write_json replaces the file in one rename; a failure
\* is swallowed and leaves the file as it was.
StoreCall(c) ==
    /\ cpc[c] = "loaded"
    /\ \E wrOk \in BOOLEAN :
        LET a == cargs[c]
            key == UserLogKey(a.user_id)
            new == PendingState(c)
        IN
        /\ userFs' = IF wrOk THEN [userFs EXCEPT ![key] = AsFile(new)] ELSE userFs
        /\ ever' = IF wrOk THEN [ever EXCEPT ![key] = @ \cup Range(new.stack)]
                   ELSE ever
        /\ unseen' = [d \in Callers |->
                        IF d = c THEN {}
                        ELSE IF wrOk /\ cpc[d] = "loaded"
                                /\ UserLogKey(cargs[d].user_id) = key
                             THEN unseen[d] \cup {NewEntry(a)}
                             ELSE unseen[d]]
        /\ last' = [kind |-> IF FindIndex(cstate[c].stack, a.process_name) = 0
                             THEN "append" ELSE "replace",
                    args |-> a, before |-> cstate[c], after |-> new,
                    stored |-> wrOk, overwrote |-> unseen[c]]
    /\ cpc' = [cpc EXCEPT ![c] = "idle"]
    /\ UNCHANGED <<cargs, cstate, clock, execVars, writeVars, auxVars>>

\* The file of a user is damaged from outside (a crash of the machine, an
\* editor, a full disk): it is there but json.load rejects it.  last speaks
\* of the files as the last call left them, so it is cleared.
CorruptUserFile(k) ==
    /\ userFs[k].exists
    /\ userFs[k].valid
    /\ userFs' = [userFs EXCEPT ![k].valid = FALSE]
    /\ last' = NoLast
    /\ UNCHANGED <<cpc, cargs, cstate, clock, ever, unseen, execVars,
                   writeVars, auxVars>>

\* The arguments of call number n for two user ids that differ in one
\* character, one that _safe_filename replaces and the one it puts instead.
CollidingArgs(n) ==
    [hip : {"/proj/a.hip"}, user_id : {<<"b", "/">>, <<"b", "_">>},
     process_name : ProcNames, uuid : {n}, request_time : {n}, status : Statuses]

InitStack ==
    /\ userFs = [k \in FileKeys |-> NoUserFile]
    /\ cpc = [c \in Callers |-> "idle"]
    /\ cargs = [c \in Callers |-> NoArgs]
    /\ cstate = [c \in Callers |-> NoState]
    /\ clock = 0
    /\ ever = [k \in FileKeys |-> {}]
    /\ unseen = [c \in Callers |-> {}]
    /\ last = NoLast

(***************************************************************************)
(* log_system.LogSystem._atomic_write_json, step by step                   *)
(***************************************************************************)
\* Calls of _atomic_write_json for one path in one behaviour.
MaxWrites == 3

\* Request threads that write the same path.
Writers == {"w1", "w2"}

\* What a file holds of the JSON text of a version: nothing yet, a part, or
\* the whole text.
FileBytes == {"none", "some", "all"}

\* No file at the path.
NoFile == [ver |-> 0, bytes |-> "absent"]

\* A variant in which json.dump writes into the destination itself.
DumpIntoDestination(w, bytes) ==
    [dest |-> [ver |-> wtmp[w].ver, bytes |-> bytes], tmp |-> wtmp]

\* Lines 86-89: json.dump and flush write into the temporary file.
DumpInto(w, bytes) ==
    [dest |-> wdest, tmp |-> [wtmp EXCEPT ![w].bytes = bytes]]

\* Lines 82-86: makedirs, then NamedTemporaryFile(delete=False, dir=parent)
\* creates an empty file next to the destination.  A failure of either is
\* caught at line 90 and the call returns.
AtomicWriteOpen(w) ==
    /\ wpc[w] = "idle"
    /\ wcount < MaxWrites
    /\ wcount' = wcount + 1
    /\ \E io \in {"ok", "mkdir_fails", "write_fails"} :
        IF io = "ok"
        THEN /\ wtmp' = [wtmp EXCEPT ![w] = [ver |-> wcount + 1, bytes |-> "none"]]
             /\ wpc' = [wpc EXCEPT ![w] = "open"]
        ELSE UNCHANGED <<wtmp, wpc>>
    /\ UNCHANGED <<wdest, rdSeen, execVars, stackVars, auxVars>>

\* Lines 87-89: json.dump writes the text piece by piece, flush and the end
\* of the with block close the file.  A failure leaves the temporary file
\* as it is and is caught at line 90.
AtomicWriteDump(w) ==
    /\ wpc[w] = "open"
    /\ \E io \in {"ok", "write_fails"} :
        IF io = "write_fails"
        THEN /\ wpc' = [wpc EXCEPT ![w] = "idle"]
             /\ UNCHANGED <<wdest, wtmp>>
        ELSE LET bytes == IF wtmp[w].bytes = "none" THEN "some" ELSE "all"
                 fs == DumpInto(w, bytes)
             IN
             /\ wdest' = fs.dest
             /\ wtmp' = fs.tmp
             /\ wpc' = [wpc EXCEPT ![w] = IF bytes = "all" THEN "closed" ELSE "open"]
    /\ UNCHANGED <<wcount, rdSeen, execVars, stackVars, auxVars>>

\* Line 89: os.replace(tmp_path, path) puts the temporary file in the place
\* of the destination in one step; its failure is caught at line 90.
AtomicWriteReplace(w) ==
    /\ wpc[w] = "closed"
    /\ \E io \in {"ok", "rename_fails"} :
        IF io = "ok"
        THEN /\ wdest' = wtmp[w]
             /\ wtmp' = [wtmp EXCEPT ![w] = NoFile]
        ELSE UNCHANGED <<wdest, wtmp>>
    /\ wpc' = [wpc EXCEPT ![w] = "idle"]
    /\ UNCHANGED <<wcount, rdSeen, execVars, stackVars, auxVars>>

\* A reader opens the path and reads what is there (_load_user_state lines
\* 122-126, or any reader of a detail log); during tells that a write was
\* under way.
ReadLog ==
    /\ LET seen == [content |-> wdest, during |-> \E w \in Writers : wpc[w] # "idle"]
       IN /\ seen \notin rdSeen
          /\ rdSeen' = rdSeen \cup {seen}
    /\ UNCHANGED <<wdest, wtmp, wpc, wcount, execVars, stackVars, auxVars>>

InitWrite ==
    /\ wdest = NoFile
    /\ wtmp = [w \in Writers |-> NoFile]
    /\ wpc = [w \in Writers |-> "idle"]
    /\ wcount = 0
    /\ rdSeen = {}

(***************************************************************************)
(* BaseTaskProcessor.run_subprocess: one call, step by step                *)
(***************************************************************************)
MaxTicks == 4

MaxTimeout == 2

\* Two calls in flight at once (two requests, each in one of its stages).
Runners == {"r1", "r2"}

\* The four call sites: lines 166, 212, 335 and 387.
RunSites == {"gen_primary", "gen_post", "png2json", "regen_primary"}

\* timeout=None: subprocess.run waits without a deadline.
NoTimeout == [timed |-> FALSE, sec |-> 0]

\* The timeout each call site can pass.  Lines 125-126 convert the payload's
\* values with int(), line 335 passes a fixed number, line 315 passes
\* payload.get("timeout_sec", 300) as it is, so a JSON null arrives as None.
SiteTimeouts(site) ==
    LET numbers == {[timed |-> TRUE, sec |-> n] : n \in 1..MaxTimeout} IN
    CASE site = "png2json" -> {[timed |-> TRUE, sec |-> MaxTimeout]}
      [] site = "regen_primary" -> numbers \cup {NoTimeout}
      [] OTHER -> numbers

\* left: the ticks until the deadline of the call.
NoRun == [site |-> "none", timeout |-> NoTimeout, left |-> 0, error |-> ""]

\* The deadline of a call has passed.
Expired(c) == c.timeout.timed /\ c.left = 0

\* Lines 82-91: the child is started and the call waits for it.
RunStart(r) ==
    /\ rpc[r] = "idle"
    /\ \E site \in RunSites : \E t \in SiteTimeouts(site) :
        rcall' = [rcall EXCEPT ![r] =
                    [site |-> site, timeout |-> t, left |-> t.sec, error |-> ""]]
    /\ rpc' = [rpc EXCEPT ![r] = "waiting"]
    /\ rchild' = [rchild EXCEPT ![r] = "running"]
    /\ UNCHANGED <<rnow, fnVars, coreVars>>

\* Lines 83-91: the executable cannot be started, Popen raises OSError.
RunSpawnFails(r) ==
    /\ rpc[r] = "idle"
    /\ \E site \in RunSites : \E t \in SiteTimeouts(site) :
        rcall' = [rcall EXCEPT ![r] =
                    [site |-> site, timeout |-> t, left |-> t.sec, error |-> "OSError"]]
    /\ rpc' = [rpc EXCEPT ![r] = "failed"]
    /\ UNCHANGED <<rchild, rnow, fnVars, coreVars>>

\* The child exits of its own accord (or never does).
ChildExit(r) ==
    /\ rchild[r] = "running"
    /\ rchild' = [rchild EXCEPT ![r] = "exited"]
    /\ UNCHANGED <<rpc, rcall, rnow, fnVars, coreVars>>

\* Lines 92-97: the child has exited, the outcome is returned.
RunReturn(r) ==
    /\ rpc[r] = "waiting"
    /\ rchild[r] = "exited"
    /\ rpc' = [rpc EXCEPT ![r] = "returned"]
    /\ UNCHANGED <<rcall, rchild, rnow, fnVars, coreVars>>

\* subprocess.run on TimeoutExpired: process.kill() on the child of this call.
RunKillOwn(r) ==
    [rchild EXCEPT ![r] = IF @ = "running" THEN "killed" ELSE @]

\* Lines 83-91, the deadline has passed: subprocess.run kills the child ...
RunKill(r) ==
    /\ rpc[r] = "waiting"
    /\ Expired(rcall[r])
    /\ rchild' = RunKillOwn(r)
    /\ rpc' = [rpc EXCEPT ![r] = "killed"]
    /\ UNCHANGED <<rcall, rnow, fnVars, coreVars>>

\* ... waits for it, and raises TimeoutExpired.
RunRaise(r) ==
    /\ rpc[r] = "killed"
    /\ rpc' = [rpc EXCEPT ![r] = "failed"]
    /\ rcall' = [rcall EXCEPT ![r].error = "TimeoutExpired"]
    /\ UNCHANGED <<rchild, rnow, fnVars, coreVars>>

\* Time passes (the clock is kept modulo MaxTicks + 1): every call that
\* waits with a deadline is one tick nearer to it.
Tick ==
    /\ rnow' = (rnow + 1) % (MaxTicks + 1)
    /\ rcall' = [r \in Runners |->
                    IF rpc[r] = "waiting" /\ rcall[r].timeout.timed /\ rcall[r].left > 0
                    THEN [rcall[r] EXCEPT !.left = @ - 1]
                    ELSE rcall[r]]
    /\ UNCHANGED <<rpc, rchild, fnVars, coreVars>>

IdleRun ==
    /\ rpc = [r \in Runners |-> "idle"]
    /\ rcall = [r \in Runners |-> NoRun]
    /\ rchild = [r \in Runners |-> "none"]
    /\ rnow = 0

(***************************************************************************)
(* The registry of processors                                              *)
(***************************************************************************)
\* Lines 548-552: TASK_PROCESSORS, from task type to the class of the
\* instance registered under it.
TaskProcessors ==
    [k \in {"room_generation", "room_regen", "list_themes"} |->
        CASE k = "room_generation" -> "RoomGenerationProcessor"
          [] k = "room_regen" -> "RoomRegenProcessor"
          [] k = "list_themes" -> "ListThemesProcessor"]

\* Line 555.
DefaultTaskType == "room_generation"

\* A variant that falls back on the default processor.
GetTaskProcessorOrDefault(task_type) ==
    IF task_type \in DOMAIN TaskProcessors
    THEN TaskProcessors[task_type]
    ELSE TaskProcessors[DefaultTaskType]

\* Lines 558-560: TASK_PROCESSORS.get(task_type).
GetTaskProcessor(task_type) ==
    IF task_type \in DOMAIN TaskProcessors THEN TaskProcessors[task_type] ELSE "None"

\* Lines 563-565: the keys of TASK_PROCESSORS in the order they were written.
GetSupportedTaskTypes == <<"room_generation", "room_regen", "list_themes">>

\* can_handle of each class: lines 103-104, 292-293 and 463-464.
CanHandle(cls, task_type) ==
    CASE cls = "RoomGenerationProcessor" -> task_type = "room_generation"
      [] cls = "RoomRegenProcessor" -> task_type = "room_regen"
      [] cls = "ListThemesProcessor" -> task_type = "list_themes"
      [] OTHER -> FALSE

\* The kinds a request can name.
KindInputs ==
    {"room_generation", "room_regen", "list_themes", "", "ROOM_GENERATION",
     "room_gen", "None"}

CallGetTaskProcessor ==
    /\ \E k \in KindInputs :
        /\ fcall' = [fn |-> "get_task_processor", kind |-> k]
        /\ fret' = [kind |-> "processor", cls |-> GetTaskProcessor(k)]
    /\ UNCHANGED <<runVars, coreVars>>

(***************************************************************************)
(* json2jpg.determine_dimensions                                           *)
(***************************************************************************)
MaxCount == 10

\* The declared total_prims: absent (None), or an integer.
Totals == {[given |-> FALSE, n |-> 0]} \cup {[given |-> TRUE, n |-> n] : n \in -1..MaxCount}

DimError == [kind |-> "ValueError"]

Dims(side) == [kind |-> "dims", width |-> side, height |-> side]

\* int(math.sqrt(n))
FloorSqrt(n) == CHOOSE s \in 0..n : s * s <= n /\ (s + 1) * (s + 1) > n

\* int(round(math.sqrt(n)))
RoundSqrt(n) ==
    LET s == FloorSqrt(n) IN IF n - s * s > s THEN s + 1 ELSE s

\* json2jpg.py lines 60-69.
InferDimensions(total_prims) ==
    LET side == RoundSqrt(IF total_prims < 0 THEN 0 ELSE total_prims) IN
    IF side * side # total_prims THEN DimError ELSE Dims(side)

\* Lines 79-84: the dimensions from the number of pixels.
DimensionsFromPixels(pixels_len) ==
    IF pixels_len > 0 /\ FloorSqrt(pixels_len) * FloorSqrt(pixels_len) = pixels_len
    THEN Dims(FloorSqrt(pixels_len))
    ELSE DimError

\* A variant that lets the error of infer_dimensions through.
DetermineDimensionsNoFallback(total_prims, pixels_len) ==
    IF total_prims.given /\ total_prims.n > 0
    THEN InferDimensions(total_prims.n)
    ELSE DimensionsFromPixels(pixels_len)

\* Lines 72-85: int(None) and the ValueError of infer_dimensions are both
\* swallowed by `except Exception: pass`.
DetermineDimensions(total_prims, pixels_len) ==
    IF /\ total_prims.given
       /\ total_prims.n > 0
       /\ InferDimensions(total_prims.n).kind = "dims"
    THEN InferDimensions(total_prims.n)
    ELSE DimensionsFromPixels(pixels_len)

CallDetermineDimensions ==
    /\ \E t \in Totals, n \in 0..MaxCount :
        /\ fcall' = [fn |-> "determine_dimensions", total_prims |-> t, pixels_len |-> n]
        /\ fret' = DetermineDimensions(t, n)
    /\ UNCHANGED <<runVars, coreVars>>

(***************************************************************************)
(* json2jpg.pixels_to_image and png2json.image_to_pixels                   *)
(***************************************************************************)
MaxSide == 2

\* Components are counted in thousandths: 300 is 0.3.
Triples == {<<0, 300, 1000>>, <<500, 998, 2>>, <<127, 700, 251>>}

\* clamp01
Clamp01(k) == IF k < 0 THEN 0 ELSE IF k > 1000 THEN 1000 ELSE k

\* int(round(clamp01(float(c)) * 255)): round() takes a tie to the even
\* neighbour.
ToByte(k) ==
    LET n == Clamp01(k) * 255
        q == n \div 1000
        r == n % 1000
    IN IF r > 500 THEN q + 1
       ELSE IF r < 500 THEN q
       ELSE IF q % 2 = 0 THEN q ELSE q + 1

\* json2jpg.py lines 117-147: the raster is black where no pixel is put;
\* pixel idx goes to column idx % width of row (height - 1) - idx // width.
PixelsToImage(pixels, width, height) ==
    [xy \in (0..(width - 1)) \X (0..(height - 1)) |->
        LET idxs == {idx \in 0..(Len(pixels) - 1) :
                        /\ idx < width * height
                        /\ idx % width = xy[1]
                        /\ (height - 1) - (idx \div width) = xy[2]}
        IN IF idxs = {} THEN <<0, 0, 0>>
           ELSE LET idx == CHOOSE i \in idxs : TRUE IN
                [c \in 1..3 |-> ToByte(pixels[idx + 1][c])]]

\* A variant that reads the rows from the top.
ImageToPixelsTopDown(img, width, height) ==
    [n \in 1..(width * height) |-> img[<<(n - 1) % width, (n - 1) \div width>>]]

\* png2json.py lines 65-99: rows from y = height - 1 down to 0, in each row
\* x from 0 up; a component is the byte over 255, kept here as the byte.
ImageToPixels(img, width, height) ==
    [n \in 1..(width * height) |->
        img[<<(n - 1) % width, (height - 1) - ((n - 1) \div width)>>]]

CallCodec ==
    /\ \E width \in 1..MaxSide, height \in 1..MaxSide :
        \E pixels \in [1..(width * height) -> Triples] :
            LET img == PixelsToImage(pixels, width, height) IN
            /\ fcall' = [fn |-> "codec", pixels |-> pixels, width |-> width,
                         height |-> height]
            /\ fret' = [kind |-> "pixels", img |-> img,
                        pixels |-> ImageToPixels(img, width, height)]
    /\ UNCHANGED <<runVars, coreVars>>

(***************************************************************************)
(* The paths of the log files                                              *)
(***************************************************************************)
MaxIdLen == 4

\* The characters of an id: a letter, a dot and the path separator.
IdChars == {"a", ".", "/"}

\* Non-empty ids (an empty one makes write_detail_log return at line 97).
Ids == UNION {[1..n -> IdChars] : n \in 1..MaxIdLen}

\* A path is the sequence of its components below the root, a component a
\* sequence of characters.  <hip_dir>/export/serve/log of lines 36-52:
HipDir == << <<"proj">> >>

BaseLogDir == HipDir \o << <<"export">>, <<"serve">>, <<"log">> >>

DetailDir == BaseLogDir \o << <<"detail">> >>

UsersDir == BaseLogDir \o << <<"users">> >>

RECURSIVE SplitPath(_, _)
\* The components of a file name with separators: cur is the component
\* being read.
SplitPath(name, cur) ==
    IF name = <<>> THEN <<cur>>
    ELSE IF Head(name) = "/" THEN <<cur>> \o SplitPath(Tail(name), <<>>)
    ELSE SplitPath(Tail(name), Append(cur, Head(name)))

RECURSIVE WalkPath(_, _)
\* The directory entry the operating system reaches from dir along comps:
\* empty components and "." stay, ".." goes to the parent (the root is its
\* own parent).
WalkPath(dir, comps) ==
    IF comps = <<>> THEN dir
    ELSE LET c == Head(comps) IN
         IF c = <<>> \/ c = <<".">> THEN WalkPath(dir, Tail(comps))
         ELSE IF c = <<".", ".">>
         THEN WalkPath(IF dir = <<>> THEN dir ELSE SubSeq(dir, 1, Len(dir) - 1),
                       Tail(comps))
         ELSE WalkPath(Append(dir, c), Tail(comps))

\* os.path.join(dir, name): a name that starts with the separator replaces
\* dir.  The result is the file the path names.
JoinPath(dir, name) ==
    IF Head(name) = "/"
    THEN WalkPath(<<>>, SplitPath(name, <<>>))
    ELSE WalkPath(dir, SplitPath(name, <<>>))

\* log_system.py line 102: os.path.join(ddir, f"{uuid_val}.json"), the id
\* as it came.
DetailLogPath(uuid_val) == JoinPath(DetailDir, uuid_val \o <<".json">>)

\* Lines 107-112: os.path.join(udir, f"{safe_id}.json").
UserLogPath(user_id) == JoinPath(UsersDir, SafeFilename(user_id) \o <<".json">>)

CallWriteDetailLog ==
    /\ \E id \in Ids :
        /\ fcall' = [fn |-> "write_detail_log", id |-> id]
        /\ fret' = [kind |-> "path", path |-> DetailLogPath(id)]
    /\ UNCHANGED <<runVars, coreVars>>

CallUserLogPath ==
    /\ \E id \in Ids :
        /\ fcall' = [fn |-> "_user_log_path", id |-> id]
        /\ fret' = [kind |-> "path", path |-> UserLogPath(id)]
    /\ UNCHANGED <<runVars, coreVars>>

\* No pure function has been called.
NoCall == [fn |-> "none"]

NoRet == [kind |-> "none"]

IdleFn == fcall = NoCall /\ fret = NoRet

(***************************************************************************)
(* hython_cook_worker._set_node_parms                                      *)
(***************************************************************************)
\* The most components a field of the node has.
MaxArity == 3

\* The most keys of a parms dict.
MaxParms == 3

\* The names a parms dict can hold: a field of one component, a field of
\* MaxArity components, a field of two, and a name the node does not have.
ParmNames == {"seed", "scale", "size", "nosuch"}

\* node.parm(name) is not None: hou finds a parameter under the name of a
\* field of one component.
NodeParm(name) == name = "seed"

\* len(node.parmTuple(name)), 0 when node.parmTuple(name) is None.
NodeParmTuple(name) ==
    CASE name = "seed" -> 1
      [] name = "scale" -> MaxArity
      [] name = "size" -> 2
      [] OTHER -> 0

\* A value of the dict: a scalar, or a list or tuple with its items.
Scalar(v) == [list |-> FALSE, items |-> <<v>>]

ListOf(items) == [list |-> TRUE, items |-> items]

ParmValues ==
    {Scalar(7)} \cup {ListOf(l) : l \in {<<>>, <<7>>, <<0, 7>>, <<3, 0, 7>>}}

\* The dicts: up to MaxParms keys, no key twice, in insertion order.
ParmDicts ==
    UNION {{d \in [1..n -> [name : ParmNames, value : ParmValues]] :
                \A i, k \in 1..n : i # k => d[i].name # d[k].name}
           : n \in 1..MaxParms}

\* A variant that hands a scalar to the field as it is.
TupleArgAsGiven(value, arity) == value

\* Lines 67-70: what tp.set gets: the list or tuple itself, or
\* [value] * len(tp).
TupleArg(value, arity) ==
    IF value.list THEN value ELSE ListOf([k \in 1..arity |-> value.items[1]])

\* Lines 62-71 for one item whose name the node has: the call on hou.
ItemCall(item) ==
    IF NodeParm(item.name)
    THEN [name |-> item.name, via |-> "parm.set", arg |-> item.value]
    ELSE [name |-> item.name, via |-> "parmTuple.set",
          arg |-> TupleArg(item.value, NodeParmTuple(item.name))]

\* Lines 60-74: the loop from item i on.  acc holds the calls made on the
\* node and the missing list so far; the set call number raisesAt raises in
\* hou (0: none does), and the exception leaves the function.
RECURSIVE SetNodeParmsFrom(_, _, _, _)
SetNodeParmsFrom(parms, i, raisesAt, acc) ==
    IF i > Len(parms)
    THEN acc
    ELSE IF NodeParm(parms[i].name) \/ NodeParmTuple(parms[i].name) > 0
         THEN LET made == [acc EXCEPT !.calls = Append(@, ItemCall(parms[i]))] IN
              IF Len(made.calls) = raisesAt
              THEN [made EXCEPT !.raised = TRUE]
              ELSE SetNodeParmsFrom(parms, i + 1, raisesAt, made)
         ELSE SetNodeParmsFrom(parms, i + 1, raisesAt,
                               [acc EXCEPT !.missing = Append(@, parms[i].name)])

\* _set_node_parms(node, parms)
SetNodeParms(parms, raisesAt) ==
    SetNodeParmsFrom(parms, 1, raisesAt,
                     [calls |-> <<>>, missing |-> <<>>, raised |-> FALSE])

\* The worker calls _set_node_parms once (line 116).
CallSetNodeParms ==
    /\ fcall = NoCall
    /\ \E parms \in ParmDicts, raisesAt \in 0..MaxParms :
        /\ fcall' = [fn |-> "_set_node_parms", parms |-> parms,
                     raisesAt |-> raisesAt]
        /\ fret' = [kind |-> "set_node_parms"] @@ SetNodeParms(parms, raisesAt)
    /\ UNCHANGED <<runVars, coreVars>>

\* The worker has put the missing list into its result and is gone.
WorkerExit ==
    /\ fcall.fn = "_set_node_parms"
    /\ fcall' = NoCall
    /\ fret' = NoRet
    /\ UNCHANGED <<runVars, coreVars>>

(***************************************************************************)
(* Specifications                                                          *)
(***************************************************************************)
vars == <<execVars, stackVars, writeVars, auxVars>>

InitExec(active) ==
    /\ pc = [j \in Jobs |-> IF j \in active THEN "start" ELSE "off"]
    /\ proc \in [Jobs -> TaskTypes]
    /\ \A j \in Jobs \ active : proc[j] = "room_generation"
    /\ payload \in [Jobs -> Payloads]
    /\ \A j \in Jobs \ active : payload[j] = DefaultPayload
    /\ loc = [j \in Jobs |-> NoLoc]
    /\ tmp = [j \in Jobs |-> NoTmp]
    /\ ev = [j \in Jobs |-> <<>>]
    /\ result = [j \in Jobs |-> NoResult]
    /\ escaped = [j \in Jobs |-> FALSE]
    /\ detailFs = [u \in UuidVals |-> NoDetail]
    /\ logCalls = [j \in Jobs |-> 0]
    /\ logWrites = [j \in Jobs |-> 0]

NextExec ==
    \E j \in Jobs :
        \/ GenPrepare(j)
        \/ PrimaryTimeout(j)
        \/ PrimarySpawnError(j)
        \/ GenPrimaryExit(j)
        \/ GenPostExit(j)
        \/ GenPostTimeout(j)
        \/ GenPostSpawnError(j)
        \/ RegenPrepare(j)
        \/ RegenPng2jsonExit(j)
        \/ RegenPng2jsonTimeout(j)
        \/ RegenPng2jsonSpawnError(j)
        \/ RegenPrimaryExit(j)
        \/ ThemesExecute(j)

\* One job, any processor, any payload, any behaviour of its children.
Init == InitExec({"j1"}) /\ InitStack /\ InitWrite /\ IdleFn /\ IdleRun

Next == NextExec

Spec == Init /\ [][Next]_vars

\* Calls of append_or_replace_user_stack one after the other.
InitSeq == InitExec({}) /\ InitStack /\ InitWrite /\ IdleFn /\ IdleRun

NextSeq ==
    \/ BeginCall("c1", CallArgs(clock + 1))
    \/ StoreCall("c1")

SpecSeq == InitSeq /\ [][NextSeq]_vars

\* Calls of append_or_replace_user_stack for one user from two request
\* threads: nothing orders one call's load and store against the other's.
NextRace ==
    \E c \in Callers :
        \/ BeginCall(c, SameUserArgs(clock + 1))
        \/ StoreCall(c)

SpecRace == InitSeq /\ [][NextRace]_vars

\* Writers and readers of one log file, each call of _atomic_write_json
\* taken statement by statement.
NextWrite ==
    \/ \E w \in Writers :
        \/ AtomicWriteOpen(w)
        \/ AtomicWriteDump(w)
        \/ AtomicWriteReplace(w)
    \/ ReadLog

SpecWrite == InitSeq /\ [][NextWrite]_vars

\* The payloads of two jobs that run at once, with different correlation
\* ids: j1 names its own, j2's is derived from its room_file parameter.
PairPayload(j) ==
    [hip |-> "/proj/a.hip", cook_node |-> "/obj/geo1/OUT",
     uuid |-> IF j = "j1" THEN "u1" ELSE "",
     parms |-> IF j = "j1"
               THEN [isdict |-> TRUE, key |-> "seed", val |-> "3"]
               ELSE [isdict |-> TRUE, key |-> "room_file", val |-> "r1.json"],
     hython |-> "hython", timeout_sec |-> "int"]

InitPair ==
    /\ InitExec(Jobs)
    /\ proc["j1"] = "room_generation"
    /\ proc["j2"] \in {"room_generation", "room_regen"}
    /\ payload = [j \in Jobs |-> PairPayload(j)]
    /\ InitStack /\ InitWrite /\ IdleFn /\ IdleRun

\* What the children and the file system of the two jobs do: every os.remove
\* succeeds, a child prints nothing or an ok object and leaves the --out file
\* empty or holding a failure, the log is written or its write fails.
PairScope ==
    \A j \in Jobs :
        /\ ~loc[j].rm_job_failed
        /\ ~loc[j].rm_result_failed
        /\ loc[j].stdout \in {"", "{ok:true}"}
        /\ loc[j].file \in {"", "{ok:false}", "ABSENT"}
        /\ loc[j].log_io \in {"none", "ok", "write_fails"}
        /\ result[j].post.json \in {"None", "DictOkTrue"}

\* The two jobs run in two request threads: any interleaving of their steps.
NextPair ==
    \E j \in Jobs :
        \/ GenPrepare(j)
        \/ PrimaryTimeout(j) /\ PairScope'
        \/ GenPrimaryExit(j) /\ PairScope'
        \/ GenPostExit(j) /\ PairScope'
        \/ GenPostTimeout(j) /\ PairScope'
        \/ RegenPrepare(j)
        \/ RegenPng2jsonExit(j) /\ PairScope'
        \/ RegenPrimaryExit(j) /\ PairScope'

SpecPair == InitPair /\ [][NextPair]_vars

\* One room_regen job whose png2json child is the png2json.py of this
\* repository.  The hython stage has no action here: no behaviour reaches it.
\* The job's thread keeps running, and a child that was started ends.
InitRegen ==
    /\ InitExec({"j1"})
    /\ proc["j1"] = "room_regen"
    /\ InitStack /\ InitWrite /\ IdleFn /\ IdleRun

NextRegen ==
    \/ RegenPrepare("j1")
    \/ RegenPng2jsonRepoExit("j1")
    \/ RegenPng2jsonTimeout("j1")
    \/ RegenPng2jsonSpawnError("j1")

SpecRegen ==
    /\ InitRegen
    /\ [][NextRegen]_vars
    /\ WF_vars(NextRegen)

\* Sequential calls for one user, and a file that can be damaged between them.
NextCorrupt ==
    \/ BeginCall("c1", SameUserArgs(clock + 1))
    \/ StoreCall("c1")
    \/ \E k \in FileKeys : CorruptUserFile(k)

SpecCorrupt == InitSeq /\ [][NextCorrupt]_vars

\* Sequential calls for two user ids that _safe_filename maps to one name.
NextUsers ==
    \/ BeginCall("c1", CollidingArgs(clock + 1))
    \/ StoreCall("c1")

SpecUsers == InitSeq /\ [][NextUsers]_vars

\* Calls of the pure functions, with arguments from bounded sets.
NextFn ==
    \/ CallGetTaskProcessor
    \/ CallDetermineDimensions
    \/ CallCodec
    \/ CallWriteDetailLog
    \/ CallUserLogPath

SpecFn == InitSeq /\ [][NextFn]_vars

\* Runs of the worker, each with one parms dict for one node.
NextParms ==
    \/ CallSetNodeParms
    \/ WorkerExit

SpecParms == InitSeq /\ [][NextParms]_vars

\* Two run_subprocess calls, any call site, any timeout the site can pass,
\* children that exit at any time or never.  The clock advances and a
\* thread that can take its next step takes it.
NextRun ==
    \/ Tick
    \/ \E r \in Runners :
        \/ RunStart(r)
        \/ RunSpawnFails(r)
        \/ ChildExit(r)
        \/ RunReturn(r)
        \/ RunKill(r)
        \/ RunRaise(r)

SpecRun ==
    /\ InitSeq
    /\ [][NextRun]_vars
    /\ WF_vars(Tick)
    /\ \A r \in Runners :
        WF_vars(RunReturn(r)) /\ WF_vars(RunKill(r)) /\ WF_vars(RunRaise(r))

(***************************************************************************)
(* Claims                                                                  *)
(***************************************************************************)
HasEv(j, e) == e \in Range(ev[j])

\* C1: every job attempt that execute takes as far as its primary stage
\* (whether the child exits, times out or cannot be started), for a job with
\* a correlation id and an existing hip directory, has handed exactly one
\* detail-log record to the log store when execute returns.
C1_OneDetailLogPerAttempt ==
    \A j \in Jobs :
        (/\ pc[j] = "done"
         /\ HasEv(j, "run:primary")
         /\ ExtractUuid(payload[j], NormalizeParms(payload[j].parms)) # ""
         /\ HipDirExists(payload[j].hip))
            => logCalls[j] = 1

\* C2: RoomGenerationProcessor.execute returns ok true exactly when the
\* primary process exited with code 0 and the resolved payload is an object
\* whose ok is true.
C2_OkIffExitZeroAndPayloadOk ==
    \A j \in Jobs :
        (pc[j] = "done" /\ proc[j] = "room_generation") =>
            (result[j].ok <=>
                (loc[j].returncode = "0" /\ loc[j].worker_json = "DictOkTrue"))

C2_Witness ==
    \E j \in Jobs :
        /\ pc[j] = "done"
        /\ proc[j] = "room_generation"
        /\ result[j].ok
        /\ loc[j].returncode = "0"

\* C3: once the post-process stage was started (so the primary stage had
\* succeeded), whatever it does, execute returns ok true with a post field,
\* no exception leaves execute, and post.ok is false when the stage timed
\* out, raised, exited non-zero or printed no object with ok true.
C3_PostNeverFlipsOk ==
    \A j \in Jobs :
        (pc[j] = "done" /\ HasEv(j, "run:post")) =>
            /\ ~escaped[j]
            /\ result[j].ok
            /\ result[j].post.present
            /\ ((\/ HasEv(j, "timeout:post")
                 \/ HasEv(j, "spawn_error:post")
                 \/ result[j].post.returncode # "0"
                 \/ result[j].post.json # "DictOkTrue") => ~result[j].post.ok)

C3_Witness ==
    \E j \in Jobs :
        /\ pc[j] = "done"
        /\ HasEv(j, "timeout:post")
        /\ result[j].ok
        /\ result[j].post.present
        /\ ~result[j].post.ok

\* C4: when the primary stage times out, execute returns ok false with the
\* timeout exception's message as its error, and no post-process stage was
\* started.
C4_PrimaryTimeout ==
    \A j \in Jobs :
        (pc[j] = "done" /\ HasEv(j, "timeout:primary")) =>
            /\ ~result[j].ok
            /\ result[j].error = ExcStr("TimeoutExpired")
            /\ ~HasEv(j, "run:post")

C4_Witness ==
    \E j \in Jobs :
        /\ pc[j] = "done"
        /\ proc[j] = "room_generation"
        /\ HasEv(j, "timeout:primary")
        /\ ~result[j].ok

\* C5: execute of every processor ends by returning a result object with a
\* boolean ok; no exception leaves it.
C5_AlwaysReturnsResult ==
    \A j \in Jobs :
        pc[j] = "done" =>
            /\ ~escaped[j]
            /\ result[j].shape \in {"error", "worker", "failure", "themes"}
            /\ result[j].ok \in BOOLEAN

C5_Witness ==
    \E j \in Jobs :
        /\ pc[j] = "done"
        /\ HasEv(j, "spawn_error:primary")
        /\ result[j].shape = "error"
        /\ ~result[j].ok

\* The stored state of the file the last call was for.
LastFile == userFs[UserLogKey(last.args.user_id)]

\* What a replacement at index i (counted from 1) has to leave in the stack
\* and history st, given the stack and history the call found.
ReplaceOutcome(i, st) ==
    LET b == last.before
        gained == (Len(b.history) + 1)..Len(st.history)
    IN
    /\ Len(st.stack) = i
    /\ st.stack[i] = NewEntry(last.args)
    /\ Len(st.history) = Len(b.history) + (Len(b.stack) - (i - 1))
    /\ \A k \in gained : st.history[k].status = "replaced"
    /\ {st.history[k] : k \in gained}
         = {Replaced(b.stack[m], last.args.request_time) : m \in i..Len(b.stack)}

NameInStack(name, stack) == \E i \in 1..Len(stack) : stack[i].process_name = name

\* What an append has to leave in the stack and history st.
AppendOutcome(st) ==
    /\ st.stack = Append(last.before.stack, NewEntry(last.args))
    /\ st.history = last.before.history

\* C7 as stated: after every call whose process_name is not in the stack,
\* the stored stack is the old one with the new entry at its end and
\* history is unchanged.
C7_EveryCallAppends ==
    (/\ last.kind # "none"
     /\ ~NameInStack(last.args.process_name, last.before.stack))
        => AppendOutcome(LastFile)

\* C7 amended: the same for every call that passes the argument check; it
\* holds of the state the call hands to the atomic write, which is the
\* stored state when the write succeeds.
C7_AcceptedCallAppends ==
    (/\ last.kind \in {"append", "replace"}
     /\ ~NameInStack(last.args.process_name, last.before.stack))
        => /\ AppendOutcome(last.after)
           /\ last.stored =>
                /\ LastFile.exists
                /\ LastFile.stack = last.after.stack
                /\ LastFile.history = last.after.history

C7_Witness ==
    /\ last.kind = "append"
    /\ last.stored
    /\ Len(last.before.stack) = 2
    /\ Len(last.before.history) > 0
    /\ Len(LastFile.stack) = 3
    /\ LastFile.history = last.before.history

\* C8: the stored stack of every user holds at most one entry per
\* process_name.
C8_OneEntryPerProcessName ==
    \A f \in FileKeys :
        \A i, k \in 1..Len(userFs[f].stack) :
            i # k => userFs[f].stack[i].process_name # userFs[f].stack[k].process_name

C8_Witness ==
    \E f \in FileKeys :
        /\ Len(userFs[f].stack) = 2
        /\ Len(userFs[f].history) >= 2
        /\ clock = MaxCalls

\* C9: every entry that ever was in a stored stack and is not in it now is
\* in the history of that file, with status replaced and a replaced_at
\* time.
C9_RemovedEntriesAreInHistory ==
    \A f \in FileKeys :
        \A e \in ever[f] :
            \/ e \in Range(userFs[f].stack)
            \/ \E h \in Range(userFs[f].history) :
                /\ h.replaced_at \in 1..MaxCalls
                /\ h = Replaced(e, h.replaced_at)

C9_Witness ==
    \E f \in FileKeys :
        \E e \in ever[f] :
            /\ e \notin Range(userFs[f].stack)
            /\ Len(userFs[f].history) >= 2

\* C10: when a call stores after others stored into the same file since it
\* loaded, the stored state holds none of their entries, in the stack or
\* in history.
C10_SecondWriterDropsFirst ==
    (last.kind \in {"append", "replace"} /\ last.stored) =>
        \A e \in last.overwrote :
            /\ e \notin Range(LastFile.stack)
            /\ \A h \in Range(LastFile.history) : h.uuid # e.uuid

\* Two calls, both loaded before either stored, both stored: the first
\* writer's entry is gone.
C10_Witness ==
    /\ clock = 2
    /\ \A c \in Callers : cpc[c] = "idle"
    /\ last.kind \in {"append", "replace"}
    /\ last.stored
    /\ last.overwrote # {}
    /\ \A e \in last.overwrote :
        /\ e \notin Range(LastFile.stack)
        /\ \A h \in Range(LastFile.history) : h.uuid # e.uuid

\* C11: whatever a reader finds at the path of a log file, at any point of
\* any write, is no file or the whole text of some version: never an empty
\* or partly written file.  The file at the path is itself always such.
C11_ReaderSeesWholeFile ==
    /\ wdest = NoFile \/ (wdest.bytes = "all" /\ wdest.ver \in 1..wcount)
    /\ \A seen \in rdSeen :
        seen.content = NoFile \/ seen.content.bytes = "all"

\* A reader found the whole text of the first version while the second
\* write had its temporary file half written, and another found no file
\* while a write was under way.
C11_Witness ==
    /\ \E seen \in rdSeen :
        seen.during /\ seen.content # NoFile /\ seen.content.bytes = "all"
    /\ \E seen \in rdSeen : seen.during /\ seen.content = NoFile
    /\ \E w \in Writers :
        wpc[w] = "open" /\ wtmp[w].bytes = "some" /\ wdest # NoFile
           /\ wdest.ver < wtmp[w].ver

\* What execute returns after its call of write_detail_log when the file
\* was written.
ResultWhenLogged(j) ==
    IF proc[j] = "room_generation"
    THEN GenResponse(loc[j].returncode, loc[j].worker_json, result[j].post)
    ELSE IF AndGetOkRaises(loc[j].worker_json)
    THEN ErrorResult(ExcStr("AttributeError"))
    ELSE RegenResponse(loc[j].returncode, loc[j].worker_json)

\* C12: when execute called write_detail_log and no file was written
\* (makedirs, the write of the temporary file or the rename failed, or the
\* call had nothing to write to), no exception left execute and the result
\* is the one returned when the file is written; a room_generation job whose
\* primary stage exited 0 with ok true is reported ok.
C12_LogFailureNeverChangesResult ==
    \A j \in Jobs :
        (pc[j] = "done" /\ logCalls[j] = 1 /\ logWrites[j] = 0) =>
            /\ ~escaped[j]
            /\ result[j] = ResultWhenLogged(j)
            /\ (/\ proc[j] = "room_generation"
                /\ loc[j].returncode = "0"
                /\ loc[j].worker_json = "DictOkTrue") => result[j].ok

\* A successful job with a correlation id and an existing hip directory,
\* whose detail log could not be written, is reported ok.
C12_Witness ==
    \E j \in Jobs :
        /\ pc[j] = "done"
        /\ proc[j] = "room_generation"
        /\ logCalls[j] = 1
        /\ logWrites[j] = 0
        /\ HipDirExists(payload[j].hip)
        /\ loc[j].uuid_val # ""
        /\ HasEv(j, "run:post")
        /\ result[j].ok

\* A job whose primary child has exited, so that lines 177-194 have run.
Resolved(j) == HasEv(j, "exit:primary")

\* The text is valid JSON.
ParsesAsJson(text) == text # "" /\ ~JsonRaises(text)

\* The payload as C13 words it: the parse of stdout when stdout is
\* non-empty and parses, else the parse of the file when the file exists
\* and parses, else None.
PayloadAsStated(stdout, file) ==
    IF ParsesAsJson(stdout) THEN JsonValue(stdout)
    ELSE IF file # "ABSENT" /\ ParsesAsJson(file) THEN JsonValue(file)
    ELSE "None"

\* C13 as stated: the resolved payload of the primary stage is the parse of
\* its stdout when that is non-empty and parses, else the parse of the
\* fallback file when it exists and parses, else None.
C13_PayloadIsStdoutElseFile ==
    \A j \in Jobs :
        Resolved(j) =>
            loc[j].worker_json = PayloadAsStated(loc[j].stdout, loc[j].file)

\* C14 as stated: when the stdout of the primary stage is valid JSON, the
\* fallback file was not consulted and is after resolution what it was
\* before.
C14_ValidStdoutLeavesFallback ==
    \A j \in Jobs :
        (Resolved(j) /\ ParsesAsJson(loc[j].stdout)) =>
            /\ ~UsesFallback(loc[j].stdout, loc[j].file)
            /\ tmp[j].result = loc[j].file

\* C15: when resolution consulted the fallback file, os.remove was called
\* on it: the file is gone unless that call failed, a failure leaves the
\* file as it was, and either way the payload is the parse of the file (None
\* when it does not parse) and no exception leaves execute.
C15_UsedFallbackIsRemoved ==
    \A j \in Jobs :
        (Resolved(j) /\ UsesFallback(loc[j].stdout, loc[j].file)) =>
            /\ tmp[j].result = "ABSENT" \/ loc[j].rm_result_failed
            /\ loc[j].rm_result_failed => tmp[j].result = loc[j].file
            /\ loc[j].worker_json = JsonLoadsOrNone(loc[j].file)
            /\ ~escaped[j]

\* The payload came from the fallback file, and the file is gone.
C15_Witness ==
    \E j \in Jobs :
        /\ pc[j] = "done"
        /\ loc[j].stdout = "garbage"
        /\ loc[j].file = "{ok:true}"
        /\ loc[j].worker_json = "DictOkTrue"
        /\ ~loc[j].rm_result_failed
        /\ tmp[j].result = "ABSENT"

\* The events that end the post-process stage.
PostEnds == {"exit:post", "timeout:post", "spawn_error:post"}

\* Event e is in ev[j] before position i.
Before(j, e, i) == \E m \in 1..(i - 1) : ev[j][m] = e

\* C16: in every job the post-process stage is started only after the
\* primary child has exited; write_detail_log is called only after the
\* primary child has exited and, when a post-process stage was started,
\* after that stage has ended, and the return is the very next event; a log
\* exists only for a job that has returned, and the record of a
\* room_generation job holds the exit code, the payload and the post_info
\* the job ended with.
C16_LogAfterBothStages ==
    \A j \in Jobs :
        /\ \A i \in 1..Len(ev[j]) :
            /\ ev[j][i] = "run:post" => Before(j, "exit:primary", i)
            /\ ev[j][i] = "detail_log" =>
                /\ Before(j, "exit:primary", i)
                /\ HasEv(j, "run:post") => \E e \in PostEnds : Before(j, e, i)
                /\ i + 1 = Len(ev[j])
                /\ ev[j][i + 1] = "return"
        /\ logCalls[j] > 0 => pc[j] = "done"
        /\ (logWrites[j] = 1 /\ proc[j] = "room_generation") =>
            /\ detailFs[loc[j].uuid_val]
                 = GenLogRecord(loc[j].returncode, loc[j].worker_json,
                                loc[j].uuid_val, result[j].post)
            /\ HasEv(j, "run:post") => detailFs[loc[j].uuid_val].post.present

\* A job that ran both stages and wrote its log.
C16_Witness ==
    \E j \in Jobs :
        /\ ev[j] = <<"run:primary", "exit:primary", "run:post", "exit:post",
                     "detail_log", "return">>
        /\ logWrites[j] = 1
        /\ detailFs[loc[j].uuid_val].post.present
        /\ detailFs[loc[j].uuid_val].post.ok

\* C17: a post-process stage was started only in a job whose primary child
\* exited with code 0, whose payload is an object with ok true, and which has
\* a non-empty correlation id; room_regen and list_themes start none.
C17_PostOnlyAfterSuccess ==
    \A j \in Jobs :
        HasEv(j, "run:post") =>
            /\ proc[j] = "room_generation"
            /\ loc[j].returncode = "0"
            /\ loc[j].worker_json = "DictOkTrue"
            /\ loc[j].uuid_val # ""

\* The post-process stage is running.
C17_Witness ==
    \E j \in Jobs :
        /\ pc[j] = "post"
        /\ HasEv(j, "run:post")
        /\ loc[j].returncode = "0"
        /\ loc[j].worker_json = "DictOkTrue"
        /\ loc[j].uuid_val = "r1"

\* The job got as far as its primary stage, so both temporary files were
\* made.
MadeTempFiles(j) == HasEv(j, "run:primary")

\* C18 as stated: once execute has returned, by whatever path, the job
\* file and the fallback-result file it made are both gone.  Only jobs in
\* which no os.remove failed are looked at.
C18_NoTempFileLeft ==
    \A j \in Jobs :
        (/\ pc[j] = "done"
         /\ MadeTempFiles(j)
         /\ ~loc[j].rm_job_failed
         /\ ~loc[j].rm_result_failed)
            => (tmp[j].job = "ABSENT" /\ tmp[j].result = "ABSENT")

\* A subprocess was started in job j.
Spawned(j) ==
    \E e \in {"run:primary", "run:png2json", "run:post", "spawn_error:primary",
               "spawn_error:png2json"} : HasEv(j, e)

\* C19 as stated: a room_generation or room_regen job without hip,
\* cook_node or a correlation id, or whose engine executable cannot be
\* resolved or was found missing, returns ok false and no subprocess was
\* started in it.
C19_InvalidJobSpawnsNothing ==
    \A j \in Jobs :
        (/\ pc[j] = "done"
         /\ proc[j] \in {"room_generation", "room_regen"}
         /\ \/ Falsy(payload[j].hip)
            \/ Falsy(payload[j].cook_node)
            \/ ExtractUuid(payload[j], NormalizeParms(payload[j].parms)) = ""
            \/ ResolveHythonRaises(payload[j])
            \/ loc[j].engine = "missing")
            => (~result[j].ok /\ ~Spawned(j))

\* C20 as stated: every result with ok false that execute returns has a
\* non-empty error string.
C20_FailureHasError ==
    \A j \in Jobs :
        (pc[j] = "done" /\ ~result[j].ok) => result[j].error # ""

\* The primary (hython) stage of job j was started, or its start was tried.
PrimaryStarted(j) ==
    \E e \in {"run:primary", "spawn_error:primary"} : HasEv(j, e)

\* The primary stage of job j has ended: its child exited, was killed at the
\* deadline, or could not be started.
PrimaryEnded(j) ==
    \E e \in {"exit:primary", "timeout:primary", "spawn_error:primary"} :
        HasEv(j, e)

\* C30: after the primary stage, however it ended, os.remove was called
\* on the job-descriptor file: the file is gone unless that call failed.
C30_JobFileRemovedOnEveryPath ==
    \A j \in Jobs :
        PrimaryEnded(j) => (tmp[j].job = "ABSENT" \/ loc[j].rm_job_failed)

\* The primary stage timed out and the job file is gone.
C30_Witness ==
    \E j \in Jobs :
        /\ pc[j] = "done"
        /\ MadeTempFiles(j)
        /\ HasEv(j, "timeout:primary")
        /\ ~loc[j].rm_job_failed
        /\ tmp[j].job = "ABSENT"

\* C21 as stated: a room_generation job with no correlation id whose
\* primary child exited skips the post-process stage and, the directory of
\* its hip file existing and the file system working, leaves a detail log.
C21_NoUuidStillLogs ==
    \A j \in Jobs :
        (/\ pc[j] = "done"
         /\ proc[j] = "room_generation"
         /\ HasEv(j, "exit:primary")
         /\ loc[j].uuid_val = ""
         /\ HipDirExists(payload[j].hip)
         /\ loc[j].log_io = "ok")
            => (~HasEv(j, "run:post") /\ logWrites[j] = 1)

\* append_or_replace_user_stack was invoked.
UserStackInvoked == clock > 0 \/ \E c \in Callers : cpc[c] # "idle"

\* C22 as stated: a job with a correlation id that has been through its
\* stages has, when execute returns, written a detail log and had
\* append_or_replace_user_stack invoked.
C22_LogAndUserStack ==
    \A j \in Jobs :
        (/\ pc[j] = "done"
         /\ HasEv(j, "detail_log")
         /\ loc[j].uuid_val # ""
         /\ logWrites[j] = 1)
            => UserStackInvoked

\* C23 as stated: when the primary child of a job with a correlation id
\* and an existing hip directory has exited, and no file-system call of the
\* log failed, the file named by the correlation id holds a record with that
\* id whose ok flag is the ok of the result execute returned.
C23_DetailLogMatchesResult ==
    \A j \in Jobs :
        (/\ pc[j] = "done"
         /\ HasEv(j, "exit:primary")
         /\ loc[j].uuid_val # ""
         /\ HipDirExists(payload[j].hip)
         /\ loc[j].log_io \in {"ok", "none"})
            => LET rec == detailFs[loc[j].uuid_val] IN
               /\ rec.exists
               /\ rec.uuid = loc[j].uuid_val
               /\ rec.has_ok
               /\ rec.ok = result[j].ok

\* The correlation id of job j.
UuidOf(j) == ExtractUuid(payload[j], NormalizeParms(payload[j].parms))

\* The record job j hands to write_detail_log, from its own locals.
OwnRecord(j) ==
    IF proc[j] = "room_generation"
    THEN GenLogRecord(loc[j].returncode, loc[j].worker_json, loc[j].uuid_val,
                      result[j].post)
    ELSE RegenLogRecord(loc[j].returncode, loc[j].worker_json, loc[j].uuid_val)

\* C24: of two jobs with different correlation ids running at once, each
\* one's detail log, once written, is and stays the whole record that job
\* made from its own stages, and a step of one job changes neither the other's
\* temporary files, nor its locals, nor its result, nor its log file.
C24_ConcurrentJobsDoNotInterfere ==
    /\ [](\A j \in Jobs :
            logWrites[j] = 1 => detailFs[DetailLogKey(UuidOf(j))] = OwnRecord(j))
    /\ [][\A j \in Jobs :
            ev'[j] = ev[j] =>
                /\ pc'[j] = pc[j]
                /\ tmp'[j] = tmp[j]
                /\ loc'[j] = loc[j]
                /\ result'[j] = result[j]
                /\ escaped'[j] = escaped[j]
                /\ logWrites'[j] = logWrites[j]
                /\ detailFs'[DetailLogKey(UuidOf(j))]
                     = detailFs[DetailLogKey(UuidOf(j))]]_vars

\* Both jobs have returned, each has written its log, the two records differ
\* and each file holds its own job's record.
C24_Witness ==
    /\ \A j \in Jobs : pc[j] = "done" /\ logWrites[j] = 1
    /\ UuidOf("j1") # UuidOf("j2")
    /\ OwnRecord("j1").ok # OwnRecord("j2").ok
    /\ detailFs["u1"] = OwnRecord("j1")
    /\ detailFs["r1"] = OwnRecord("j2")
    /\ HasEv("j1", "exit:post")

\* C27: get_task_processor returns a processor exactly for the kinds of
\* get_supported_task_types and None for any other; the default kind is
\* supported; the processor registered under a kind handles that kind and no
\* other registered kind.
C27_RegistryAgrees ==
    /\ DefaultTaskType \in Range(GetSupportedTaskTypes)
    /\ fcall.fn = "get_task_processor" =>
        /\ (fret.cls # "None") <=> (fcall.kind \in Range(GetSupportedTaskTypes))
        /\ fret.cls # "None" =>
            \A k \in Range(GetSupportedTaskTypes) :
                CanHandle(fret.cls, k) <=> (k = fcall.kind)

\* An unregistered kind was asked for and None came back.
C27_Witness ==
    /\ fcall.fn = "get_task_processor"
    /\ fcall.kind = "ROOM_GENERATION"
    /\ fret.cls = "None"

\* n is a positive perfect square.
IsSquare(n) == \E s \in 1..n : s * s = n

\* C29: determine_dimensions returns (s, s) with s*s the declared count
\* when that is a positive perfect square, else (s, s) with s*s the pixel
\* count when that is one, else it raises.
C29_DimensionsFromCountThenPixels ==
    fcall.fn = "determine_dimensions" =>
        LET t == fcall.total_prims
            n == fcall.pixels_len
        IN IF t.given /\ IsSquare(t.n)
           THEN /\ fret.kind = "dims"
                /\ fret.width = fret.height
                /\ fret.width * fret.width = t.n
           ELSE IF IsSquare(n)
           THEN /\ fret.kind = "dims"
                /\ fret.width = fret.height
                /\ fret.width * fret.width = n
           ELSE fret.kind = "ValueError"

\* Ten pixels and no declared count: the call raised.
C29_Witness ==
    /\ fcall.fn = "determine_dimensions"
    /\ ~fcall.total_prims.given
    /\ fcall.pixels_len = 10
    /\ fret = DimError

\* Byte b stands for b/255; that is within 1/255 of k thousandths.
WithinTolerance(b, k) ==
    /\ 1000 * b - 255 * k <= 1000
    /\ 255 * k - 1000 * b <= 1000

\* C28: encoding W*H triples and decoding the raster gives as many
\* triples, in the same order, each component within 1/255 of the original;
\* pixel 0 is in the bottom row of the raster, at its left end.
C28_CodecRoundTrip ==
    fcall.fn = "codec" =>
        /\ Len(fret.pixels) = Len(fcall.pixels)
        /\ \A i \in 1..Len(fcall.pixels) : \A c \in 1..3 :
            WithinTolerance(fret.pixels[i][c], fcall.pixels[i][c])
        /\ \A c \in 1..3 :
            WithinTolerance(fret.img[<<0, fcall.height - 1>>][c], fcall.pixels[1][c])

\* A raster of two rows and two columns whose rows differ came back in order.
C28_Witness ==
    /\ fcall.fn = "codec"
    /\ fcall.width = 2
    /\ fcall.height = 2
    /\ fcall.pixels[1] # fcall.pixels[3]
    /\ fret.pixels[1] # fret.pixels[3]
    /\ fret.pixels[1] = fret.img[<<0, 1>>]

\* Path p names a file directly in directory dir.
DirectlyIn(p, dir) == Len(p) = Len(dir) + 1 /\ SubSeq(p, 1, Len(dir)) = dir

\* C25 as stated: for every correlation id the detail log is a file
\* directly in <hip_dir>/export/serve/log/detail, and for every user id the
\* user log is a file directly in <hip_dir>/export/serve/log/users.
C25_LogPathsStayInLogDir ==
    /\ fcall.fn = "write_detail_log" => DirectlyIn(fret.path, DetailDir)
    /\ fcall.fn = "_user_log_path" => DirectlyIn(fret.path, UsersDir)

\* A call has ended: it returned an outcome or it raised.
RunEnded(r) == rpc[r] \in {"returned", "failed"}

\* C26 as stated: every run_subprocess call ends, by the child's exit or
\* by the kill at the deadline; a kill happens only at the deadline of the
\* child's own call and touches no other child; no child is running once its
\* call has ended.
C26_EveryCallTerminates ==
    /\ \A r \in Runners : (rpc[r] = "waiting") ~> RunEnded(r)
    /\ [](\A r \in Runners : RunEnded(r) => rchild[r] # "running")
    /\ [][\A r \in Runners :
            (rchild[r] = "running" /\ rchild'[r] = "killed") =>
                /\ Expired(rcall[r])
                /\ \A q \in Runners \ {r} : rchild'[q] = rchild[q]]_vars

\* The stdout of png2json.py is a JSON object with a truthy ok.
Png2jsonOk(out) ==
    /\ out # "NOT_RUN"
    /\ out # ""
    /\ ~JsonRaises(out)
    /\ IsDict(JsonValue(out))
    /\ GetOk(JsonValue(out))

\* The png2json stage of job j ended without an ok object.
Png2jsonFailed(j) ==
    \/ HasEv(j, "exit:png2json") /\ ~Png2jsonOk(loc[j].png2json_stdout)
    \/ HasEv(j, "timeout:png2json")
    \/ HasEv(j, "spawn_error:png2json")
    \/ HasEv(j, "missing:png2json")

\* C33: in a room_regen job the hython stage is started only after
\* png2json.py exited with an ok object on stdout; after any other outcome of
\* the png2json stage execute has returned ok false with an error string and
\* started no hython process.
C33_HythonOnlyAfterPng2jsonOk ==
    \A j \in Jobs :
        proc[j] = "room_regen" =>
            /\ PrimaryStarted(j) =>
                (HasEv(j, "exit:png2json") /\ Png2jsonOk(loc[j].png2json_stdout))
            /\ Png2jsonFailed(j) =>
                /\ pc[j] = "done"
                /\ ~result[j].ok
                /\ result[j].error # ""
                /\ ~PrimaryStarted(j)

\* png2json.py printed an object with ok false: the job failed and no hython
\* process was started.
C33_Witness ==
    \E j \in Jobs :
        /\ proc[j] = "room_regen"
        /\ pc[j] = "done"
        /\ loc[j].png2json_stdout = "{ok:false}"
        /\ ~result[j].ok
        /\ ~PrimaryStarted(j)

\* C37 as stated: a room_regen job returns ok true only if its hython
\* child exited with code 0 and the resolved payload reports ok, the rule
\* room_generation applies.
C37_RegenSuccessRule ==
    \A j \in Jobs :
        (proc[j] = "room_regen" /\ pc[j] = "done" /\ result[j].ok) =>
            /\ loc[j].returncode = "0"
            /\ AndGetOk(loc[j].worker_json)
            /\ result[j] = GenResponse(loc[j].returncode, loc[j].worker_json,
                                       result[j].post)

\* C31 as stated: when the post-process child exited with stdout empty or
\* unparseable, its payload is what the two channels of the primary stage
\* would give: the parse of the fallback file the child was told, with --out,
\* to write.
C31_PostHasFallbackChannel ==
    \A j \in Jobs :
        (HasEv(j, "exit:post") /\ FromStdout(loc[j].post_stdout) = "None") =>
            /\ "--out" \in loc[j].post_cmd
            /\ \E file \in ResultFiles :
                result[j].post.json = ResolvePayload(loc[j].post_stdout, file)

\* C32 as stated: a room_regen job with a valid payload, run with the
\* png2json.py of this repository, gets to its hython stage (unless the
\* png2json child times out, cannot be started or its script is missing), and
\* the hython stage never starts before png2json.py has exited.
C32_RegenReachesHython ==
    /\ \A j \in Jobs :
        (proc[j] = "room_regen" /\ pc[j] = "start" /\ RegenEarlyExc(payload[j]) = "")
            ~> \E e \in {"run:primary", "timeout:png2json", "spawn_error:png2json",
                         "missing:png2json"} : HasEv(j, e)
    /\ [](\A j \in Jobs :
            (proc[j] = "room_regen" /\ HasEv(j, "run:primary")) =>
                HasEv(j, "exit:png2json"))

(***************************************************************************)
(* The user log file that cannot be read                                   *)
(***************************************************************************)
\* The last call passed the argument check and found a file at its path
\* that open or json.load rejected.
FoundUnreadable ==
    /\ last.kind \in {"append", "replace"}
    /\ last.before.source = "unreadable"

\* The entries that were stored in the file of the last call before it.
StoredBefore == ever[UserLogKey(last.args.user_id)] \ {NewEntry(last.args)}

\* C39 as stated: after a call that found its user log file unreadable, the
\* file holds a state whose stack is the new entry alone and whose history
\* is empty.
C39_UnreadableFileIsOverwritten ==
    FoundUnreadable =>
        /\ LastFile.exists
        /\ LastFile.valid
        /\ LastFile.stack = <<NewEntry(last.args)>>
        /\ LastFile.history = <<>>

\* C39 amended: a call that found its user log file unreadable went on from
\* an empty stack and history and handed the atomic write a state whose
\* stack is the new entry alone and whose history is empty; when the write
\* succeeded that state is the file, and no entry stored before is in it.
C39_UnreadableFileStartsOver ==
    FoundUnreadable =>
        /\ last.before.stack = <<>>
        /\ last.before.history = <<>>
        /\ last.kind = "append"
        /\ last.after.stack = <<NewEntry(last.args)>>
        /\ last.after.history = <<>>
        /\ last.stored =>
            /\ LastFile = AsFile(last.after)
            /\ \A e \in StoredBefore :
                /\ e \notin Range(LastFile.stack)
                /\ \A h \in Range(LastFile.history) : h.uuid # e.uuid

\* Two entries were stored, the file was damaged, and the next call stored
\* a stack of one entry.
C39_Witness ==
    /\ FoundUnreadable
    /\ last.stored
    /\ Cardinality(StoredBefore) >= 2
    /\ Len(LastFile.stack) = 1
    /\ LastFile.history = <<>>

(***************************************************************************)
(* One log file per user id                                                *)
(***************************************************************************)
\* C38: a call that passes the argument check for user id A loads no state
\* stored for another user id and stores into no file that holds the state
\* of another user id: the state it found in a file is the state of A, and
\* so is the state in the file it wrote.
C38_UserLogsAreIsolated ==
    last.kind \in {"append", "replace"} =>
        /\ last.before.source = "file" => last.before.user_id = last.args.user_id
        /\ last.stored => LastFile.user_id = last.args.user_id

(***************************************************************************)
(* What a call keeps of the stack and of history                           *)
(***************************************************************************)
IsPrefix(s, t) == Len(s) <= Len(t) /\ SubSeq(t, 1, Len(s)) = s

\* C35: with the calls of one user after one another, the history a call
\* hands to the write, and the history in the file after the call, begin
\* with the history the call found; no step takes an entry out of the
\* history of a file, moves it or changes it.
C35_HistoryIsAppendOnly ==
    /\ [](last.kind \in {"append", "replace"} =>
            /\ IsPrefix(last.before.history, last.after.history)
            /\ IsPrefix(last.before.history, LastFile.history))
    /\ [][\A k \in FileKeys : IsPrefix(userFs[k].history, userFs'[k].history)]_vars

\* A replacement that found a history and stored a longer one.
C35_Witness ==
    /\ last.kind = "replace"
    /\ last.stored
    /\ Len(last.before.history) >= 1
    /\ Len(LastFile.history) > Len(last.before.history)
    /\ IsPrefix(last.before.history, LastFile.history)

\* The index of the entry the last call matched, Len + 1 when it matched
\* none.
MatchedIndex ==
    IF FindIndex(last.before.stack, last.args.process_name) = 0
    THEN Len(last.before.stack) + 1
    ELSE FindIndex(last.before.stack, last.args.process_name)

CallsFor(name) ==
    {k \in 1..Len(fret.calls) : fret.calls[k].name = name}

\* The loop got to item i: the set calls of the items up to i were made.
ItemReached(i) ==
    Cardinality({k \in 1..i : NodeParmTuple(fcall.parms[k].name) > 0})
        <= Len(fret.calls)

\* C34: of the items _set_node_parms got to, a scalar for a field of more
\* than one component is set through parmTuple as a list of as many copies
\* as the field has components; a list or tuple is handed to set as it is;
\* a name that is neither a parameter nor a field gets no call on the node
\* and is in the missing list the function returns, which holds no other
\* name.
C34_ScalarsAreBroadcast ==
    fcall.fn = "_set_node_parms" =>
        /\ \A i \in 1..Len(fcall.parms) :
            LET name == fcall.parms[i].name
                value == fcall.parms[i].value
                arity == NodeParmTuple(name)
            IN
            ItemReached(i) =>
                /\ (arity > 1 /\ ~value.list) =>
                    \E k \in CallsFor(name) :
                        /\ CallsFor(name) = {k}
                        /\ fret.calls[k].via = "parmTuple.set"
                        /\ fret.calls[k].arg.list
                        /\ Len(fret.calls[k].arg.items) = arity
                        /\ \A m \in 1..arity :
                            fret.calls[k].arg.items[m] = value.items[1]
                /\ (arity > 0 /\ value.list) =>
                    \E k \in CallsFor(name) :
                        /\ CallsFor(name) = {k}
                        /\ fret.calls[k].arg = value
                /\ arity = 0 =>
                    /\ CallsFor(name) = {}
                    /\ ~fret.raised => name \in Range(fret.missing)
        /\ \A name \in Range(fret.missing) :
            /\ NodeParmTuple(name) = 0
            /\ \E i \in 1..Len(fcall.parms) : fcall.parms[i].name = name

\* One dict with the three cases: a scalar spread over MaxArity components,
\* a list shorter than its field handed over as it is, and a missing name.
C34_Witness ==
    /\ fcall.fn = "_set_node_parms"
    /\ ~fret.raised
    /\ fret.missing = <<"nosuch">>
    /\ \E k \in CallsFor("scale") :
        /\ fret.calls[k].via = "parmTuple.set"
        /\ fret.calls[k].arg = ListOf([m \in 1..MaxArity |-> 7])
    /\ \E k \in CallsFor("size") :
        /\ fret.calls[k].via = "parmTuple.set"
        /\ fret.calls[k].arg = ListOf(<<7>>)


====
